---- MODULE Spec2Model ----
(***************************************************************************)
(* Warframe market tracker (ky0und/WF-analyzer): the desktop application   *)
(* of main.py (watchlist, check cycles, automatic checks, single-item      *)
(* fetch), the market client of api_handler.py and the price history of    *)
(* database_handler.py, as a state machine of threads stepping between     *)
(* the points where they read or write shared state.                       *)
(***************************************************************************)
EXTENDS Integers, Sequences, FiniteSets, TLC

\* ------------------------------------------------------------------ bounds
NumItems == 2
MaxManual == 1
MaxAuto == 2
MaxHandlers == 2
MaxInserts == 4

\* --------------------------------------------------------- program constants
MIN_HISTORICAL_POINTS == 5
\* BUY_THRESHOLD_PERCENT = 0.85 as the fraction 17/20
BUY_THRESHOLD_NUM == 17
BUY_THRESHOLD_DEN == 20
HISTORY_DAYS == 7
PLATFORM == "pc"

\* Python's None where an integer is expected (a price, a JSON null).
PyNone == -1
\* An order dictionary without the key 'platinum'.
KeyAbsent == -2

Items == 1..NumItems
ManualIds == 1..MaxManual
AutoIds == (MaxManual + 1)..(MaxManual + MaxAuto)
Checkers == ManualIds \cup AutoIds
HandlerIds == (MaxManual + MaxAuto + 1)..(MaxManual + MaxAuto + MaxHandlers)
FetchId == MaxManual + MaxAuto + MaxHandlers + 1
\* The request handler of the web application, and who calls the upstream.
ServerId == FetchId + 1
\* The handler of a change of the live table's filter or sort column.
TableId == ServerId + 1
Threads == Checkers \cup HandlerIds \cup {FetchId, TableId}
Callers == Checkers \cup {FetchId, ServerId}

\* ------------------------------------------------------------ sequences
Range(s) == {s[k] : k \in 1..Len(s)}

RECURSIVE Insert(_, _)
Insert(x, s) ==
    IF s = <<>> THEN <<x>>
    ELSE IF x <= Head(s) THEN <<x>> \o s
    ELSE <<Head(s)>> \o Insert(x, Tail(s))

\* SortAsc that sorts nothing.
SortNot(s) == s

RECURSIVE SortAsc(_)
SortAsc(s) == IF s = <<>> THEN <<>> ELSE Insert(Head(s), SortAsc(Tail(s)))

\* Reverse without reverse=True: the list stays ascending.
ReverseNot(s) == s

Reverse(s) == [k \in 1..Len(s) |-> s[Len(s) + 1 - k]]

\* sorted(prices) and sorted(prices, reverse=True): ordering two values one
\* of which is None raises TypeError; a list of fewer than two values is
\* never compared.
SortRaises(prices) == Len(prices) >= 2 /\ PyNone \in Range(prices)

\* ------------------------------------------------------- api_handler.py
Lower(s) ==
    CASE s = "InGame" -> "ingame"
      [] s = "ONLINE" -> "online"
      [] OTHER -> s

\* The upstream answer: kind "error" (network error, timeout, non-2xx, a body
\* that is no JSON), "malformed" (no payload or no orders field), "ok".
NoneOrders == [is_none |-> TRUE, orders |-> <<>>]

\* Relevant without the visibility test of line 26.
RelevantWhateverVisible(order, platform) ==
    /\ order.user_platform = platform
    /\ Lower(order.user_status) \in {"ingame", "online"}

Relevant(order, platform) ==
    /\ order.user_platform = platform
    /\ Lower(order.user_status) \in {"ingame", "online"}
    /\ order.visible = TRUE

get_market_data(response, platform) ==
    IF response.kind # "ok" THEN NoneOrders
    ELSE [is_none |-> FALSE,
          orders |-> SelectSeq(response.orders, LAMBDA o : Relevant(o, platform))]

PricesOf(orders, side) ==
    LET picked == SelectSeq(orders,
                    LAMBDA o : o.order_type = side /\ o.platinum # KeyAbsent)
    IN [k \in 1..Len(picked) |-> picked[k].platinum]

\* HeadOrNone giving 0 for the None of lines 60-61.
HeadOrZero(s) == IF s = <<>> THEN 0 ELSE s[1]

HeadOrNone(s) == IF s = <<>> THEN PyNone ELSE s[1]

\* (raised, min_sell, max_buy) of the two sorted price lists of `orders`.
BestOf(orders) ==
    LET sells == PricesOf(orders, "sell")
        buys == PricesOf(orders, "buy")
    IN IF SortRaises(sells) \/ SortRaises(buys)
       THEN [raised |-> TRUE, min_sell |-> PyNone, max_buy |-> PyNone]
       ELSE [raised |-> FALSE,
             min_sell |-> HeadOrNone(SortAsc(sells)),
             max_buy |-> HeadOrNone(Reverse(SortAsc(buys)))]

get_current_min_max_prices(response, platform) ==
    LET got == get_market_data(response, platform)
    IN IF got.is_none \/ got.orders = <<>>
       THEN [raised |-> FALSE, min_sell |-> PyNone, max_buy |-> PyNone]
       ELSE BestOf(got.orders)

\* -------------------------------------------------- database_handler.py
\* get_historical_prices_for_item: the prices of the item, platform and side
\* whose timestamp is at or after the cutoff; [] when the read fails.
get_historical_prices_for_item(db, db_ok, item, platform, days, side, clock) ==
    IF ~db_ok THEN <<>>
    ELSE LET rows == SelectSeq(db, LAMBDA p :
                        /\ p.item_url_name = item
                        /\ p.platform = platform
                        /\ p.order_type = side
                        /\ p.timestamp >= clock - days)
         IN [k \in 1..Len(rows) |-> rows[k].price]

\* insert_market_data keeping one copy of a point.
InsertUnlessStored(db, db_ok, item, platform, timestamp, side, price) ==
    LET point == [item_url_name |-> item, platform |-> platform,
                  order_type |-> side, price |-> price, timestamp |-> timestamp]
    IN IF price = PyNone \/ ~db_ok \/ \E k \in 1..Len(db) : db[k] = point THEN db
       ELSE Append(db, point)

insert_market_data(db, db_ok, item, platform, timestamp, side, price) ==
    IF price = PyNone \/ ~db_ok THEN db
    ELSE Append(db, [item_url_name |-> item, platform |-> platform,
                     order_type |-> side, price |-> price,
                     timestamp |-> timestamp])

\* ------------------------------------------------------------- main.py
\* Twice statistics.median(prices), which is an integer.
Median2(prices) ==
    LET s == SortAsc(prices)
        n == Len(s)
    IN IF n % 2 = 1 THEN 2 * s[(n + 1) \div 2]
       ELSE s[n \div 2] + s[n \div 2 + 1]

\* BelowThreshold with <= for the < of line 268.
BelowOrAtThreshold(current_min_sell, prices) ==
    2 * BUY_THRESHOLD_DEN * current_min_sell <= BUY_THRESHOLD_NUM * Median2(prices)

\* current_min_sell < median * 0.85
BelowThreshold(current_min_sell, prices) ==
    2 * BUY_THRESHOLD_DEN * current_min_sell < BUY_THRESHOLD_NUM * Median2(prices)

\* ClassifyAgainstHistory asking for more than MIN_HISTORICAL_POINTS prices.
ClassifyNeedsMore(current_min_sell, prices) ==
    IF prices = <<>> \/ Len(prices) <= MIN_HISTORICAL_POINTS
    THEN "Not Enough Data (<5)"
    ELSE IF BelowThreshold(current_min_sell, prices) THEN "Good Buy!"
    ELSE "Normal"

\* The part of check_watched_item_deal after the market call.
ClassifyAgainstHistory(current_min_sell, prices) ==
    IF prices = <<>> \/ Len(prices) < MIN_HISTORICAL_POINTS
    THEN "Not Enough Data (<5)"
    ELSE IF BelowThreshold(current_min_sell, prices) THEN "Good Buy!"
    ELSE "Normal"


\* --------------------------------------------------------------- state
VARIABLES
    watched_items,          \* main.py:25, the insertion-ordered dict, as a sequence of entries
    watchlist_view,         \* main.py:153, the entries last rendered by update_watchlist_display
    watchlist_lock,         \* main.py:27, 0 when free, else the holding thread
    WATCHLIST_FILE,         \* main.py:18, the persisted watchlist
    MarketData,             \* database_handler.py:109, the price points
    inserts,                \* number of price points added since Init
    clock,                  \* the current day
    stop_auto_check_flag,   \* main.py:30
    auto_check_active_state,\* main.py:31
    auto_check_thread,      \* main.py:29, 0 for None
    controls_disabled,      \* fetch_button, item_input, check_watchlist_button, enable_auto_check_cb
    add_watchlist_button,   \* main.py:127, [disabled, data]
    watchlist_status_text,  \* main.py:150
    search_status_text,     \* main.py:128
    current_orders_data,    \* main.py:24
    pc,                     \* each thread's position
    items_to_check,         \* main.py:235, per checker thread
    idx,                    \* main.py:242, position in items_to_check (1-based)
    current_min_sell,       \* main.py:261, per checker thread
    historical_sell_prices, \* main.py:263, per checker thread
    status,                 \* main.py:249, per checker thread
    arg,                    \* the argument of a handler or fetch thread
    buffer,                 \* save_watchlist's file object: what json.dump wrote, not yet flushed
    current_max_buy,        \* main.py:261, the `_` of the evaluator, per checker thread
    response,               \* api_handler.py:17, the upstream's answer to each caller's request
    request,                \* api/index.py:39-40, the arguments of the HTTP request served last
    http_response,          \* api/index.py:102, the status and orders answered last
    store_ok,               \* main.py:185-186, whether the store took the sell and the buy write of the fetch thread
    UserSettings,           \* database_handler.py:186-189, the row of 'default_user' in the table UserSettings
    db_answer,              \* database_handler.py:10-62, what the database did in the watchlist request served last
    historical_prices,      \* database_handler.py:129-154, the arguments and the result of the last call
    data_lock,              \* main.py:26, 0 when free, else the holding thread
    live_order_filter,      \* main.py:28
    live_data_table         \* main.py:137-147, [sort_column_index, sort_ascending, rows]

vars == <<watched_items, watchlist_view, watchlist_lock, WATCHLIST_FILE, MarketData,
          inserts, clock, stop_auto_check_flag, auto_check_active_state,
          auto_check_thread, controls_disabled, add_watchlist_button,
          watchlist_status_text, search_status_text, current_orders_data, pc,
          items_to_check, idx, current_min_sell, historical_sell_prices, status,
          arg, buffer,
          current_max_buy, response, request, http_response, store_ok, UserSettings, db_answer,
          historical_prices, data_lock, live_order_filter, live_data_table>>

\* Variable groups, for UNCHANGED.
storeVars == <<WATCHLIST_FILE, MarketData, inserts, clock, buffer>>
autoVars == <<stop_auto_check_flag, auto_check_active_state, auto_check_thread>>
tableVars == <<data_lock, live_order_filter, live_data_table>>
uiVars == <<controls_disabled, add_watchlist_button, watchlist_status_text,
            search_status_text, current_orders_data, tableVars>>
evalVars == <<current_min_sell, current_max_buy, historical_sell_prices, status>>
netVars == <<response, request, http_response, store_ok, UserSettings, db_answer,
            historical_prices>>
localVars == <<items_to_check, idx, evalVars, arg>>

\* ------------------------------------------------------ the watchlist dict
Keys(w) == [k \in 1..Len(w) |-> w[k].key]
Has(w, key) == \E k \in 1..Len(w) : w[k].key = key
Entry(w, key) == w[CHOOSE k \in 1..Len(w) : w[k].key = key]

NewEntry(key, name) ==
    [key |-> key, status |-> "Not Checked", last_checked |-> "None",
     friendly_name |-> name]

\* SetStatus without the membership test of lines 246 and 251: a key that is
\* gone is put back.
SetStatusCreates(w, key, st, checked) ==
    IF \E k \in 1..Len(w) : w[k].key = key
    THEN [k \in 1..Len(w) |->
            IF w[k].key = key
            THEN [w[k] EXCEPT !.status = st, !.last_checked = checked]
            ELSE w[k]]
    ELSE Append(w, [key |-> key, status |-> st, last_checked |-> checked,
                    friendly_name |-> 1])

\* main.py:246 and 251: if item_url_name in watched_items: set status and last_checked
SetStatus(w, key, st, checked) ==
    [k \in 1..Len(w) |->
        IF w[k].key = key
        THEN [w[k] EXCEPT !.status = st, !.last_checked = checked]
        ELSE w[k]]

\* main.py:221-222
\* AddItem that replaces the entry of a key already present.
AddItemAnew(w, key, name) ==
    Append(SelectSeq(w, LAMBDA e : e.key # key), NewEntry(key, name))

AddItem(w, key, name) == IF Has(w, key) THEN w ELSE Append(w, NewEntry(key, name))

\* main.py:281-282
\* DelItem that drops the first entry when the key is absent.
DelItemOrFirst(w, key) ==
    IF Has(w, key) \/ w = <<>> THEN SelectSeq(w, LAMBDA e : e.key # key) ELSE Tail(w)

DelItem(w, key) == SelectSeq(w, LAMBDA e : e.key # key)

\* main.py:365: sorted(watched_items.items(), key=friendly_name), a stable sort
RECURSIVE InsertByName(_, _)
InsertByName(e, s) ==
    IF s = <<>> THEN <<e>>
    ELSE IF s[Len(s)].friendly_name <= e.friendly_name THEN Append(s, e)
    ELSE Append(InsertByName(e, SubSeq(s, 1, Len(s) - 1)), s[Len(s)])

RECURSIVE SortedByName(_)
SortedByName(w) ==
    IF w = <<>> THEN <<>>
    ELSE InsertByName(w[Len(w)], SortedByName(SubSeq(w, 1, Len(w) - 1)))

\* ----------------------------------------------------------- the inputs
Order(side, price) ==
    [order_type |-> side, platinum |-> price, user_platform |-> PLATFORM,
     user_status |-> "ingame", visible |-> TRUE]

\* An order as the upstream lists it: the trader's status and platform, the
\* order's visibility.
RawOrder(side, price, user_status, user_platform, visible) ==
    [order_type |-> side, platinum |-> price, user_platform |-> user_platform,
     user_status |-> user_status, visible |-> visible]

Ok(orders) == [kind |-> "ok", orders |-> orders]

\* No request made yet, no request served yet.
NoResponse == [kind |-> "none", orders |-> <<>>]
NoRequest == [name |-> 0, platform |-> PLATFORM]
\* database_handler.py:115-124: a write the store did not take is caught there.
Stored(sell_ok, buy_ok) == [sell |-> sell_ok, buy |-> buy_ok]

\* The table UserSettings without a row of the user, and with one.
NoRow == [present |-> FALSE, watchlist |-> <<>>]
Row(w) == [present |-> TRUE, watchlist |-> w]

NoReply == [status |-> 0, orders |-> <<>>]

\* No call of get_historical_prices_for_item of database_handler.py made yet.
NoRead == [item_url_name |-> 0, platform |-> PLATFORM, order_type |-> "sell",
           prices |-> <<>>]

\* main.py:137-147: the live table's sort column and direction, and its rows
Table(sort_column_index, sort_ascending, rows) ==
    [sort_column_index |-> sort_column_index, sort_ascending |-> sort_ascending,
     rows |-> rows]

\* What the upstream answers during a check cycle or a fetch.
Responses ==
    { [kind |-> "error", orders |-> <<>>],
      Ok(<<>>),
      Ok(<<Order("sell", 80), Order("buy", 70)>>),
      Ok(<<Order("sell", 85)>>),
      Ok(<<Order("sell", 10), Order("sell", PyNone)>>) }

Point(item, price, day) ==
    [item_url_name |-> item, platform |-> PLATFORM, order_type |-> "sell",
     price |-> price, timestamp |-> day]

Today == 10

\* The price history at start: item 1 has five sell points in the window and one
\* older, every other item has four.
InitialMarketData ==
    <<Point(1, 100, 3), Point(1, 100, 4), Point(1, 100, 5), Point(1, 100, 9),
      Point(1, 100, 10), Point(1, 40, 2),
      Point(2, 100, 7), Point(2, 100, 8), Point(2, 100, 9), Point(2, 100, 10)>>

\* ---------------------------------------------------------------- Init
\* The watchlist file: absent, or what a finished save wrote.
NoFile == [exists |-> FALSE, valid |-> FALSE, data |-> <<>>]
SavedFile(w) == [exists |-> TRUE, valid |-> TRUE, data |-> w]

\* load_watchlist, main.py:41-71: the file's dictionary; {} when there is no
\* file (line 68-71) and when json.load raises on it (line 56-61)
load_watchlist(file) == IF file.exists /\ file.valid THEN file.data ELSE <<>>

\* The state after construction (main.py:22-31, 109, 125-153) over a watchlist
\* file holding `w` and a price history `db`; `button`, `text` and `orders` are
\* the add button, the search status and the order list.
InitFrom(file, db, added, button, text, orders) ==
    /\ watched_items = load_watchlist(file)
    /\ watchlist_view = SortedByName(load_watchlist(file))
    /\ watchlist_lock = 0
    /\ WATCHLIST_FILE = file
    /\ MarketData = db
    /\ inserts = added
    /\ clock = Today
    /\ stop_auto_check_flag = FALSE
    /\ auto_check_active_state = FALSE
    /\ auto_check_thread = 0
    /\ controls_disabled = FALSE
    /\ add_watchlist_button = button
    /\ watchlist_status_text = "Watchlist Status: Idle"
    /\ search_status_text = text
    /\ current_orders_data = orders
    /\ pc = [t \in Threads |-> "none"]
    /\ items_to_check = [t \in Checkers |-> <<>>]
    /\ idx = [t \in Checkers |-> 1]
    /\ current_min_sell = [t \in Checkers |-> PyNone]
    /\ historical_sell_prices = [t \in Checkers |-> <<>>]
    /\ status = [t \in Checkers |-> "None"]
    /\ arg = [t \in HandlerIds \cup {FetchId} |-> <<>>]
    /\ buffer = [t \in HandlerIds |-> <<>>]
    /\ current_max_buy = [t \in Checkers |-> PyNone]
    /\ response = [t \in Callers |-> NoResponse]
    /\ request = NoRequest
    /\ http_response = NoReply
    /\ store_ok = Stored(TRUE, TRUE)
    /\ UserSettings = NoRow
    /\ db_answer = "ok"
    /\ historical_prices = NoRead
    /\ data_lock = 0
    /\ live_order_filter = "all"
    /\ live_data_table = Table(PyNone, TRUE, orders)

\* The state after construction over a watchlist file that a save wrote.
InitWith(w, db, added, button, text, orders) ==
    InitFrom(SavedFile(w), db, added, button, text, orders)

\* The watchlists loaded at start: entries never checked.
InitialWatchlists == {<<>>, <<NewEntry(1, 1)>>, <<NewEntry(1, 1), NewEntry(2, 1)>>}

Init ==
    \E w \in InitialWatchlists :
        InitWith(w, InitialMarketData, 0, [disabled |-> TRUE, data |-> <<>>],
                 "Enter an item name and press 'Fetch' or Enter.", <<>>)

\* A thread object that has been started and has not ended.
is_alive(t) == pc[t] \notin {"none", "crashed"}

\* update_status(..., controls_to_disable=controls_to_disable), main.py:157-164
SetControls(is_loading) ==
    /\ controls_disabled' = is_loading
    /\ add_watchlist_button' = [add_watchlist_button EXCEPT !.disabled = is_loading]

\* --------------------------------------------- check_watchlist_prices_thread
\* Where a cycle returns to: a manual thread ends, the automatic loop goes on.
AfterCycle(t) == IF t \in ManualIds THEN "none" ELSE "while"

\* check_watchlist_button_clicked making the cycle's market call itself.
CheckClickedCalls(t) ==
    /\ t \in ManualIds
    /\ ~controls_disabled
    /\ ~is_alive(t)
    /\ pc' = [pc EXCEPT ![t] = "begin"]
    /\ response' = [response EXCEPT ![t] = Ok(<<>>)]
    /\ UNCHANGED <<request, http_response, store_ok, UserSettings, db_answer, historical_prices,
                   watched_items, watchlist_view, watchlist_lock, storeVars,
                   autoVars, uiVars, localVars>>

\* main.py:273-276
check_watchlist_button_clicked(t) ==
    /\ t \in ManualIds
    /\ ~controls_disabled
    /\ ~is_alive(t)
    /\ pc' = [pc EXCEPT ![t] = "begin"]
    /\ UNCHANGED <<netVars, watched_items, watchlist_view, watchlist_lock, storeVars,
                   autoVars, uiVars, localVars>>

\* main.py:234
CycleBegin(t) ==
    /\ pc[t] = "begin"
    /\ watchlist_status_text' = "Checking watchlist prices..."
    /\ SetControls(TRUE)
    /\ pc' = [pc EXCEPT ![t] = "snap_acq"]
    /\ UNCHANGED <<netVars, watched_items, watchlist_view, watchlist_lock, storeVars,
                   autoVars, search_status_text, current_orders_data, tableVars, localVars>>

\* `with watchlist_lock:` entered at main.py:236, 244 or 250
Acquire(t, from, to) ==
    /\ pc[t] = from
    /\ watchlist_lock = 0
    /\ watchlist_lock' = t
    /\ pc' = [pc EXCEPT ![t] = to]
    /\ UNCHANGED <<netVars, watched_items, watchlist_view, storeVars, autoVars, uiVars,
                   localVars>>

CycleAcquire(t) ==
    \/ Acquire(t, "snap_acq", "snap")
    \/ Acquire(t, "mark_acq", "mark")
    \/ Acquire(t, "write_acq", "write")

\* main.py:236
Snapshot(t) ==
    /\ pc[t] = "snap"
    /\ watchlist_lock = t
    /\ items_to_check' = [items_to_check EXCEPT ![t] = Keys(watched_items)]
    /\ idx' = [idx EXCEPT ![t] = 1]
    /\ watchlist_lock' = 0
    /\ pc' = [pc EXCEPT ![t] = "loop"]
    /\ UNCHANGED <<netVars, watched_items, watchlist_view, storeVars, autoVars, uiVars,
                   evalVars, arg>>

\* LoopHead with line 243 as `if stop_auto_check_flag.is_set()`: a manual run
\* polls the flag too.
LoopHeadPollsAlways(t) ==
    /\ pc[t] = "loop"
    /\ pc' = [pc EXCEPT ![t] =
                IF items_to_check[t] = <<>> THEN "empty"
                ELSE IF idx[t] > Len(items_to_check[t]) THEN "complete"
                ELSE IF stop_auto_check_flag THEN "complete"
                ELSE "mark_acq"]
    /\ UNCHANGED <<netVars, watched_items, watchlist_view, watchlist_lock, storeVars,
                   autoVars, uiVars, localVars>>

\* LoopHead without line 243: the stop flag is never polled.
LoopHeadIgnoresFlag(t) ==
    /\ pc[t] = "loop"
    /\ pc' = [pc EXCEPT ![t] =
                IF items_to_check[t] = <<>> THEN "empty"
                ELSE IF idx[t] > Len(items_to_check[t]) THEN "complete"
                ELSE "mark_acq"]
    /\ UNCHANGED <<netVars, watched_items, watchlist_view, watchlist_lock, storeVars,
                   autoVars, uiVars, localVars>>

\* main.py:237-243: the empty watchlist, the end of the loop, the stop flag of
\* an automatic run, or the next item.
LoopHead(t) ==
    /\ pc[t] = "loop"
    /\ pc' = [pc EXCEPT ![t] =
                IF items_to_check[t] = <<>> THEN "empty"
                ELSE IF idx[t] > Len(items_to_check[t]) THEN "complete"
                ELSE IF t \in AutoIds /\ stop_auto_check_flag THEN "complete"
                ELSE "mark_acq"]
    /\ UNCHANGED <<netVars, watched_items, watchlist_view, watchlist_lock, storeVars,
                   autoVars, uiVars, localVars>>

\* CycleReturn with the report of line 254 on both returns.
CycleReturnAlwaysComplete(t) ==
    /\ pc[t] \in {"empty", "complete"}
    /\ IF t \in ManualIds
       THEN /\ watchlist_status_text' = "Watchlist check complete."
            /\ SetControls(FALSE)
       ELSE UNCHANGED <<watchlist_status_text, controls_disabled, add_watchlist_button>>
    /\ pc' = [pc EXCEPT ![t] = AfterCycle(t)]
    /\ items_to_check' = [items_to_check EXCEPT ![t] = <<>>]
    /\ idx' = [idx EXCEPT ![t] = 1]
    /\ UNCHANGED <<netVars, watched_items, watchlist_view, watchlist_lock, storeVars,
                   autoVars, search_status_text, current_orders_data, tableVars,
                   evalVars, arg>>

\* main.py:238-240 and 254-255: the report and the return
CycleReturn(t) ==
    /\ pc[t] \in {"empty", "complete"}
    /\ IF t \in ManualIds
       THEN /\ watchlist_status_text' =
                  (IF pc[t] = "empty" THEN "Watchlist is empty."
                   ELSE "Watchlist check complete.")
            /\ SetControls(FALSE)
       ELSE UNCHANGED <<watchlist_status_text, controls_disabled, add_watchlist_button>>
    /\ pc' = [pc EXCEPT ![t] = AfterCycle(t)]
    /\ items_to_check' = [items_to_check EXCEPT ![t] = <<>>]
    /\ idx' = [idx EXCEPT ![t] = 1]
    /\ UNCHANGED <<netVars, watched_items, watchlist_view, watchlist_lock, storeVars,
                   autoVars, search_status_text, current_orders_data, tableVars,
                   evalVars, arg>>

\* CurrentItem iterating the live dict in place of the snapshot of line 236.
CurrentItemLive(t) ==
    IF idx[t] <= Len(watched_items)
    THEN watched_items[idx[t]].key
    ELSE items_to_check[t][idx[t]]

\* main.py:242: item_url_name, the loop variable over the snapshot
CurrentItem(t) == items_to_check[t][idx[t]]

\* MarkChecking that marks every entry of the watchlist.
MarkCheckingAll(t) ==
    /\ pc[t] = "mark"
    /\ watchlist_lock = t
    /\ watched_items' =
          [k \in 1..Len(watched_items) |->
              [watched_items[k] EXCEPT !.status = "Checking...",
                                       !.last_checked = "%H:%M:%S"]]
    /\ watchlist_lock' = 0
    /\ pc' = [pc EXCEPT ![t] = "display1"]
    /\ UNCHANGED <<netVars, watchlist_view, storeVars, autoVars, uiVars, localVars>>

\* main.py:244-246
MarkChecking(t) ==
    /\ pc[t] = "mark"
    /\ watchlist_lock = t
    /\ watched_items' = SetStatus(watched_items, CurrentItem(t), "Checking...", "%H:%M:%S")
    /\ watchlist_lock' = 0
    /\ pc' = [pc EXCEPT ![t] = "display1"]
    /\ UNCHANGED <<netVars, watchlist_view, storeVars, autoVars, uiVars, localVars>>

\* update_watchlist_display, main.py:360-378: reads under the lock, then renders
Display(t, from, to) ==
    /\ pc[t] = from
    /\ watchlist_lock = 0
    /\ watchlist_view' = SortedByName(watched_items)
    /\ pc' = [pc EXCEPT ![t] = to]
    /\ UNCHANGED <<netVars, watched_items, watchlist_lock, storeVars, autoVars, uiVars,
                   localVars>>

\* CycleDisplay without line 247: the marked item is not shown before the call.
CycleDisplayAfterCall(t) ==
    \/ /\ pc[t] = "display1"
       /\ pc' = [pc EXCEPT ![t] = "eval"]
       /\ UNCHANGED <<netVars, watched_items, watchlist_view, watchlist_lock, storeVars,
                      autoVars, uiVars, localVars>>
    \/ Display(t, "display2", "sleep")

CycleDisplay(t) ==
    \/ Display(t, "display1", "eval")
    \/ Display(t, "display2", "sleep")

\* check_watched_item_deal, main.py:260-262: the market call and its outcome;
\* `responses`: what the upstream may answer
MarketCall(t, responses) ==
    /\ pc[t] = "eval"
    /\ \E response_ \in responses :
         LET best == get_current_min_max_prices(response_, PLATFORM)
         IN IF best.raised
            THEN /\ pc' = [pc EXCEPT ![t] = "crashed"]
                 /\ response' = [response EXCEPT ![t] = response_]
                 /\ UNCHANGED <<current_min_sell, current_max_buy, status>>
            ELSE /\ response' = [response EXCEPT ![t] = response_]
                 /\ current_min_sell' = [current_min_sell EXCEPT ![t] = best.min_sell]
                 /\ current_max_buy' = [current_max_buy EXCEPT ![t] = best.max_buy]
                 /\ IF best.min_sell = PyNone
                    THEN /\ status' = [status EXCEPT ![t] = "Error: API Fetch Failed"]
                         /\ pc' = [pc EXCEPT ![t] = "write_acq"]
                    ELSE /\ pc' = [pc EXCEPT ![t] = "hist"]
                         /\ UNCHANGED status
    /\ UNCHANGED <<request, http_response, store_ok, UserSettings, db_answer, historical_prices, watched_items, watchlist_view, watchlist_lock, storeVars,
                   autoVars, uiVars, items_to_check, idx, historical_sell_prices, arg>>

\* check_watched_item_deal, main.py:263-270: the history read and the verdict
HistoryRead(t) ==
    /\ pc[t] = "hist"
    /\ \E db_ok \in BOOLEAN :
         LET prices == get_historical_prices_for_item(MarketData, db_ok,
                          CurrentItem(t), PLATFORM, HISTORY_DAYS, "sell", clock)
         IN /\ historical_sell_prices' = [historical_sell_prices EXCEPT ![t] = prices]
            /\ status' = [status EXCEPT ![t] =
                            ClassifyAgainstHistory(current_min_sell[t], prices)]
    /\ pc' = [pc EXCEPT ![t] = "write_acq"]
    /\ UNCHANGED <<netVars, watched_items, watchlist_view, watchlist_lock, storeVars,
                   autoVars, uiVars, items_to_check, idx, current_min_sell,
                   current_max_buy, arg>>

\* main.py:250-251
WriteStatus(t) ==
    /\ pc[t] = "write"
    /\ watchlist_lock = t
    /\ watched_items' = SetStatus(watched_items, CurrentItem(t), status[t],
                                  "%Y-%m-%d %H:%M")
    /\ watchlist_lock' = 0
    /\ status' = [status EXCEPT ![t] = "None"]
    /\ current_min_sell' = [current_min_sell EXCEPT ![t] = PyNone]
    /\ current_max_buy' = [current_max_buy EXCEPT ![t] = PyNone]
    /\ historical_sell_prices' = [historical_sell_prices EXCEPT ![t] = <<>>]
    /\ response' = [response EXCEPT ![t] = NoResponse]
    /\ pc' = [pc EXCEPT ![t] = "display2"]
    /\ UNCHANGED <<request, http_response, store_ok, UserSettings, db_answer, historical_prices, watchlist_view, storeVars, autoVars, uiVars, items_to_check,
                   idx, arg>>

\* main.py:253 and the next turn of the for loop
PacingSleep(t) ==
    /\ pc[t] = "sleep"
    /\ idx' = [idx EXCEPT ![t] = idx[t] + 1]
    /\ pc' = [pc EXCEPT ![t] = "loop"]
    /\ UNCHANGED <<netVars, watched_items, watchlist_view, watchlist_lock, storeVars,
                   autoVars, uiVars, items_to_check, evalVars, arg>>

CheckCycle(t, responses) ==
    \/ CycleAcquire(t)
    \/ Snapshot(t)
    \/ LoopHead(t)
    \/ CycleReturn(t)
    \/ MarkChecking(t)
    \/ CycleDisplay(t)
    \/ MarketCall(t, responses)
    \/ HistoryRead(t)
    \/ WriteStatus(t)
    \/ PacingSleep(t)

\* ------------------------------------------------------ run_automatic_checks
\* main.py:292
LoopWhile(t) ==
    /\ pc[t] = "while"
    /\ pc' = [pc EXCEPT ![t] = IF stop_auto_check_flag THEN "none" ELSE "wait"]
    /\ UNCHANGED <<netVars, watched_items, watchlist_view, watchlist_lock, storeVars,
                   autoVars, uiVars, localVars>>

\* main.py:294-295, Event.wait(timeout): with the flag set it returns True at
\* once and the loop breaks; otherwise the thread sleeps until the timeout
\* (False) or until a set() notifies it (True, whatever the flag is by then).
LoopWait(t) ==
    /\ \/ /\ pc[t] = "wait"
          /\ pc' = [pc EXCEPT ![t] = IF stop_auto_check_flag THEN "none" ELSE "sleeping"]
       \/ pc[t] = "sleeping" /\ pc' = [pc EXCEPT ![t] = "decide"]
       \/ pc[t] = "woken" /\ pc' = [pc EXCEPT ![t] = "none"]
    /\ UNCHANGED <<netVars, watched_items, watchlist_view, watchlist_lock, storeVars,
                   autoVars, uiVars, localVars>>

\* main.py:296-301
LoopDecide(t) ==
    /\ pc[t] = "decide"
    /\ pc' = [pc EXCEPT ![t] =
                IF ~stop_auto_check_flag /\ auto_check_active_state
                THEN "snap_acq" ELSE "while"]
    /\ UNCHANGED <<netVars, watched_items, watchlist_view, watchlist_lock, storeVars,
                   autoVars, uiVars, localVars>>

run_automatic_checks(t) ==
    \/ LoopWhile(t)
    \/ LoopWait(t)
    \/ LoopDecide(t)

\* main.py:304-315
\* stop_auto_check_flag.set(): every thread sleeping in the wait is notified
Notified == [t \in Threads |-> IF pc[t] = "sleeping" THEN "woken" ELSE pc[t]]

\* toggle_automatic_checks without line 314: switching off drops the thread
\* object and leaves the stop flag clear.
ToggleOffKeepsFlag(enabled, slots) ==
    /\ ~controls_disabled
    /\ enabled = ~auto_check_active_state
    /\ auto_check_active_state' = enabled
    /\ IF enabled /\ (auto_check_thread = 0 \/ ~is_alive(auto_check_thread))
       THEN \E t \in slots :
              /\ ~is_alive(t)
              /\ stop_auto_check_flag' = FALSE
              /\ auto_check_thread' = t
              /\ pc' = [pc EXCEPT ![t] = "while"]
       ELSE IF ~enabled /\ auto_check_thread # 0 /\ is_alive(auto_check_thread)
       THEN /\ auto_check_thread' = 0
            /\ UNCHANGED <<stop_auto_check_flag, pc>>
       ELSE UNCHANGED <<stop_auto_check_flag, auto_check_thread, pc>>
    /\ UNCHANGED <<netVars, watched_items, watchlist_view, watchlist_lock, storeVars,
                   uiVars, localVars>>

\* `slots`: the thread objects a new automatic loop may take.
toggle_automatic_checks(enabled, slots) ==
    /\ ~controls_disabled
    /\ enabled = ~auto_check_active_state
    /\ auto_check_active_state' = enabled
    /\ IF enabled /\ (auto_check_thread = 0 \/ ~is_alive(auto_check_thread))
       THEN \E t \in slots :
              /\ ~is_alive(t)
              /\ stop_auto_check_flag' = FALSE
              /\ auto_check_thread' = t
              /\ pc' = [pc EXCEPT ![t] = "while"]
       ELSE IF ~enabled /\ auto_check_thread # 0 /\ is_alive(auto_check_thread)
       THEN /\ stop_auto_check_flag' = TRUE
            /\ auto_check_thread' = 0
            /\ pc' = Notified
       ELSE UNCHANGED <<stop_auto_check_flag, auto_check_thread, pc>>
    /\ UNCHANGED <<netVars, watched_items, watchlist_view, watchlist_lock, storeVars,
                   uiVars, localVars>>

\* -------------------------------------------------- fetch_single_item_thread
\* A string is a number: its characters are the digits, to the base Base, of
\* the alphabet 'a' (1), 'b' (2), '_' (3), 'A' (4), ' ' (5); "" is 0. The
\* items 1..NumItems are the keys "a", "b", ...
Base == 6
Underscore == 3
UpperA == 4
Space == 5
Chars == 1..(Base - 1)

RECURSIVE Str(_)
Str(n) == IF n = 0 THEN <<>> ELSE Append(Str(n \div Base), n % Base)

RECURSIVE Code(_)
Code(s) == IF s = <<>> THEN 0 ELSE Code(SubSeq(s, 1, Len(s) - 1)) * Base + s[Len(s)]

\* str.lower()
lower(s) == [k \in 1..Len(s) |-> IF s[k] = UpperA THEN 1 ELSE s[k]]

\* str.strip(): leading and trailing whitespace removed
RECURSIVE lstrip(_)
lstrip(s) == IF s # <<>> /\ Head(s) = Space THEN lstrip(Tail(s)) ELSE s

RECURSIVE rstrip(_)
rstrip(s) ==
    IF s # <<>> /\ s[Len(s)] = Space THEN rstrip(SubSeq(s, 1, Len(s) - 1)) ELSE s

strip(s) == rstrip(lstrip(s))

\* str.replace(old, new) for single characters
replace(s, old, new) == [k \in 1..Len(s) |-> IF s[k] = old THEN new ELSE s[k]]

\* What the user types where the spelling is of no interest: an item's key.
UserInputs == Items

\* main.py:34-38: user_input.lower().strip().replace(' ', '_'), None for ""
format_item_name_for_api(user_input) ==
    IF user_input = 0 THEN PyNone
    ELSE Code(replace(strip(lower(Str(user_input))), Space, Underscore))

\* main.py:201-211: an empty or blank input is refused (line 204-206), else
\* the table's rows are cleared (line 209) and the thread is started with the
\* key and the stripped input (line 210)
fetch_button_clicked(t, inputs) ==
    /\ t = FetchId
    /\ ~controls_disabled
    /\ ~is_alive(t)
    /\ inserts + 2 <= MaxInserts
    /\ \E user_input \in inputs :
         IF strip(Str(user_input)) = <<>>
         THEN /\ search_status_text' = "Please enter an item name."
              /\ UNCHANGED <<arg, add_watchlist_button, live_data_table, pc>>
         ELSE /\ arg' = [arg EXCEPT ![t] = <<format_item_name_for_api(user_input),
                                            Code(strip(Str(user_input)))>>]
              /\ add_watchlist_button' = [add_watchlist_button EXCEPT !.disabled = TRUE]
              /\ live_data_table' = [live_data_table EXCEPT !.rows = <<>>]
              /\ pc' = [pc EXCEPT ![t] = "f_begin"]
              /\ UNCHANGED search_status_text
    /\ UNCHANGED <<netVars, watched_items, watchlist_view, watchlist_lock, storeVars,
                   autoVars, controls_disabled, watchlist_status_text,
                   current_orders_data, data_lock, live_order_filter,
                   items_to_check, idx, evalVars>>

\* main.py:172-173
FetchBegin(t) ==
    /\ pc[t] = "f_begin"
    /\ search_status_text' = "Fetching"
    /\ SetControls(TRUE)
    /\ pc' = [pc EXCEPT ![t] = "f_call"]
    /\ UNCHANGED <<netVars, watched_items, watchlist_view, watchlist_lock, storeVars,
                   autoVars, watchlist_status_text, current_orders_data, tableVars, localVars>>

\* StorePricePoints without the insert of the buy price.
StoreSellPointOnly(db, sell_ok, buy_ok, item, platform, day, best) ==
    insert_market_data(db, sell_ok, item, platform, day, "sell", best.min_sell)

\* main.py:185-186, the two inserts of one fetch, each of which may fail
StorePricePoints(db, sell_ok, buy_ok, item, platform, day, best) ==
    insert_market_data(
        insert_market_data(db, sell_ok, item, platform, day, "sell", best.min_sell),
        buy_ok, item, platform, day, "buy", best.max_buy)

\* main.py:187: order['item_url_name'] = item_url_name
Tagged(orders, item) ==
    [k \in 1..Len(orders) |->
        [order_type |-> orders[k].order_type, platinum |-> orders[k].platinum,
         user_platform |-> orders[k].user_platform,
         user_status |-> orders[k].user_status, visible |-> orders[k].visible,
         item_url_name |-> item]]

\* main.py:174-193: the market call, the price points, the add button
FetchCall(t, responses) ==
    /\ pc[t] = "f_call"
    /\ \E response_ \in responses, sell_ok, buy_ok \in BOOLEAN :
         LET got == get_market_data(response_, PLATFORM)
             best == BestOf(got.orders)
         IN IF got.is_none
            THEN /\ pc' = [pc EXCEPT ![t] = "f_failed"]
                 /\ response' = [response EXCEPT ![t] = response_]
                 /\ UNCHANGED <<MarketData, inserts, add_watchlist_button, arg, store_ok>>
            ELSE IF best.raised
            THEN /\ pc' = [pc EXCEPT ![t] = "crashed"]
                 /\ response' = [response EXCEPT ![t] = response_]
                 /\ UNCHANGED <<MarketData, inserts, add_watchlist_button, arg, store_ok>>
            ELSE /\ response' = [response EXCEPT ![t] = response_]
                 /\ MarketData' = StorePricePoints(MarketData, sell_ok, buy_ok,
                                                   arg[t][1], PLATFORM, clock, best)
                 /\ store_ok' = Stored(best.min_sell = PyNone \/ sell_ok,
                                       best.max_buy = PyNone \/ buy_ok)
                 /\ inserts' = inserts + Len(MarketData') - Len(MarketData)
                 /\ add_watchlist_button' =
                        [disabled |-> FALSE, data |-> <<arg[t][1], arg[t][2]>>]
                 /\ arg' = [arg EXCEPT ![t] =
                              <<arg[t][1], arg[t][2], Tagged(got.orders, arg[t][1])>>]
                 /\ pc' = [pc EXCEPT ![t] = "f_ok"]
    /\ UNCHANGED <<request, http_response, UserSettings, db_answer, historical_prices, watched_items, watchlist_view, watchlist_lock, WATCHLIST_FILE,
                   clock, buffer, autoVars, controls_disabled,
                   watchlist_status_text, search_status_text,
                   current_orders_data, tableVars, items_to_check, idx, evalVars>>

\* ------------------------------------------------------- the live table
\* `with data_lock:` entered at main.py:194 or 325
DataAcquire(t, from, to) ==
    /\ pc[t] = from
    /\ data_lock = 0
    /\ data_lock' = t
    /\ pc' = [pc EXCEPT ![t] = to]
    /\ UNCHANGED <<netVars, watched_items, watchlist_view, watchlist_lock, storeVars,
                   autoVars, controls_disabled, add_watchlist_button,
                   watchlist_status_text, search_status_text, current_orders_data,
                   live_order_filter, live_data_table, localVars>>

\* main.py:327-331: the orders of the chosen side, or all of them
Filtered(orders, filter) ==
    IF filter \in {"sell", "buy"}
    THEN SelectSeq(orders, LAMBDA o : o.order_type = filter)
    ELSE orders

\* get_sort_key of the price column, main.py:340: int(order.get('platinum', 0))
SortKey(order) == IF order.platinum = KeyAbsent THEN 0 ELSE order.platinum

\* int(None) raises TypeError, which line 343 catches: the list stays as it was
SortKeyRaises(orders) == \E k \in 1..Len(orders) : orders[k].platinum = PyNone

\* list.sort(key=..., reverse=not sort_asc), main.py:342: stable either way
InsertByKey(o, s, asc) ==
    LET Before(x) == IF asc THEN SortKey(x) <= SortKey(o) ELSE SortKey(x) >= SortKey(o)
    IN SelectSeq(s, Before) \o <<o>> \o SelectSeq(s, LAMBDA x : ~Before(x))

RECURSIVE SortByKey(_, _)
SortByKey(orders, asc) ==
    IF orders = <<>> THEN <<>>
    ELSE InsertByKey(orders[Len(orders)],
                     SortByKey(SubSeq(orders, 1, Len(orders) - 1), asc), asc)

\* main.py:332-343: what the table shows, sorted when a sort column is set
Shown(orders, filter, table) ==
    IF table.sort_column_index \notin {PyNone, 0} /\ ~SortKeyRaises(Filtered(orders, filter))
    THEN SortByKey(Filtered(orders, filter), table.sort_ascending)
    ELSE Filtered(orders, filter)

\* f"{price:,}" of main.py:352 raises TypeError on a price of None
RenderRaises(orders) == \E k \in 1..Len(orders) : orders[k].platinum = PyNone

\* update_live_table_display, main.py:325-357, inside `with data_lock`: with
\* the filter 'all' the list sorted is current_orders_data itself; an
\* exception of the rendering leaves the `with` and ends the caller
update_live_table_display(t, from, to) ==
    /\ pc[t] = from
    /\ data_lock = t
    /\ LET shown == Shown(current_orders_data, live_order_filter, live_data_table)
       IN /\ current_orders_data' =
                (IF live_order_filter \in {"sell", "buy"} THEN current_orders_data
                 ELSE shown)
          /\ IF RenderRaises(shown)
             THEN /\ pc' = [pc EXCEPT ![t] = "crashed"]
                  /\ UNCHANGED live_data_table
             ELSE /\ pc' = [pc EXCEPT ![t] = to]
                  /\ live_data_table' = [live_data_table EXCEPT !.rows = shown]
    /\ data_lock' = 0
    /\ UNCHANGED <<netVars, watched_items, watchlist_view, watchlist_lock, storeVars,
                   autoVars, controls_disabled, add_watchlist_button,
                   watchlist_status_text, search_status_text, live_order_filter,
                   localVars>>

\* main.py:381-385
live_filter_changed(t, filters) ==
    /\ t = TableId
    /\ ~is_alive(t)
    /\ \E new_filter_value \in filters : live_order_filter' = new_filter_value
    /\ pc' = [pc EXCEPT ![t] = "t_acq"]
    /\ UNCHANGED <<netVars, watched_items, watchlist_view, watchlist_lock, storeVars,
                   autoVars, controls_disabled, add_watchlist_button,
                   watchlist_status_text, search_status_text, current_orders_data,
                   data_lock, live_data_table, localVars>>

\* main.py:412-418
handle_sort(t, columns) ==
    /\ t = TableId
    /\ ~is_alive(t)
    /\ \E column_index \in columns, ascending \in BOOLEAN :
         live_data_table' = [live_data_table EXCEPT !.sort_column_index = column_index,
                                                    !.sort_ascending = ascending]
    /\ pc' = [pc EXCEPT ![t] = "t_acq"]
    /\ UNCHANGED <<netVars, watched_items, watchlist_view, watchlist_lock, storeVars,
                   autoVars, controls_disabled, add_watchlist_button,
                   watchlist_status_text, search_status_text, current_orders_data,
                   data_lock, live_order_filter, localVars>>

\* The rest of either handler: update_live_table_display.
TableHandler(t) ==
    \/ DataAcquire(t, "t_acq", "t_show")
    \/ update_live_table_display(t, "t_show", "none")

\* main.py:194 and 196, the two entries of the fetch thread into data_lock
FetchAcquire(t) ==
    \/ DataAcquire(t, "f_ok", "f_assign")
    \/ DataAcquire(t, "f_failed", "f_assign")
    \/ DataAcquire(t, "f_show_acq", "f_show")

\* FetchAssign that keeps the orders of the fetch before when this one failed.
FetchAssignWhenFetched(t) ==
    /\ pc[t] = "f_assign"
    /\ data_lock = t
    /\ current_orders_data' = (IF Len(arg[t]) = 3 THEN arg[t][3] ELSE current_orders_data)
    /\ data_lock' = 0
    /\ pc' = [pc EXCEPT ![t] = "f_show_acq"]
    /\ UNCHANGED <<netVars, watched_items, watchlist_view, watchlist_lock, storeVars,
                   autoVars, controls_disabled, add_watchlist_button,
                   watchlist_status_text, search_status_text, live_order_filter,
                   live_data_table, localVars>>

\* main.py:194: the batch of a fetch that got orders has the tagged orders as
\* the third part of arg, the batch of a failed one is empty
FetchAssign(t) ==
    /\ pc[t] = "f_assign"
    /\ data_lock = t
    /\ current_orders_data' = (IF Len(arg[t]) = 3 THEN arg[t][3] ELSE <<>>)
    /\ data_lock' = 0
    /\ pc' = [pc EXCEPT ![t] = "f_show_acq"]
    /\ UNCHANGED <<netVars, watched_items, watchlist_view, watchlist_lock, storeVars,
                   autoVars, controls_disabled, add_watchlist_button,
                   watchlist_status_text, search_status_text, live_order_filter,
                   live_data_table, localVars>>

\* main.py:197
FetchEnd(t) ==
    /\ pc[t] = "f_status"
    /\ search_status_text' =
          (IF Len(arg[t]) = 3 THEN "Displaying orders. Stored price point."
           ELSE "Error fetching data")
    /\ SetControls(FALSE)
    /\ arg' = [arg EXCEPT ![t] = <<>>]
    /\ response' = [response EXCEPT ![t] = NoResponse]
    /\ store_ok' = Stored(TRUE, TRUE)
    /\ pc' = [pc EXCEPT ![t] = "none"]
    /\ UNCHANGED <<request, http_response, UserSettings, db_answer, historical_prices, watched_items, watchlist_view, watchlist_lock,
                   storeVars, autoVars, watchlist_status_text, current_orders_data,
                   tableVars, items_to_check, idx, evalVars>>

fetch_single_item_thread(t, responses) ==
    \/ FetchBegin(t)
    \/ FetchCall(t, responses)
    \/ FetchAcquire(t)
    \/ FetchAssign(t)
    \/ update_live_table_display(t, "f_show", "f_status")
    \/ FetchEnd(t)

\* ------------------------------------------------ the watchlist handlers
\* main.py:214-219
add_watchlist_clicked(h) ==
    /\ ~is_alive(h)
    /\ ~add_watchlist_button.disabled
    /\ add_watchlist_button.data # <<>>
    /\ arg' = [arg EXCEPT ![h] = add_watchlist_button.data]
    /\ pc' = [pc EXCEPT ![h] = "add_acq"]
    /\ UNCHANGED <<netVars, watched_items, watchlist_view, watchlist_lock, storeVars,
                   autoVars, uiVars, items_to_check, idx, evalVars>>

\* AddUnderLock with update_watchlist_display called inside the `with`.
AddKeepsLock(h) ==
    /\ pc[h] = "add"
    /\ watchlist_lock = h
    /\ watched_items' = AddItem(watched_items, arg[h][1], arg[h][2])
    /\ search_status_text' =
          (IF Has(watched_items, arg[h][1]) THEN "already on watchlist"
           ELSE "Added to watchlist")
    /\ pc' = [pc EXCEPT ![h] = "h_display"]
    /\ UNCHANGED <<netVars, watchlist_view, watchlist_lock, storeVars, autoVars,
                   controls_disabled, add_watchlist_button, watchlist_status_text,
                   current_orders_data, tableVars, localVars>>

\* main.py:220-226
AddUnderLock(h) ==
    /\ pc[h] = "add"
    /\ watchlist_lock = h
    /\ watched_items' = AddItem(watched_items, arg[h][1], arg[h][2])
    /\ search_status_text' =
          (IF Has(watched_items, arg[h][1]) THEN "already on watchlist"
           ELSE "Added to watchlist")
    /\ watchlist_lock' = 0
    /\ pc' = [pc EXCEPT ![h] = "h_display"]
    /\ UNCHANGED <<netVars, watchlist_view, storeVars, autoVars, controls_disabled,
                   add_watchlist_button, watchlist_status_text,
                   current_orders_data, tableVars, localVars>>

\* main.py:278-279: the delete icon of a rendered tile
remove_watchlist_item(h) ==
    /\ ~is_alive(h)
    /\ \E e \in Range(watchlist_view) : arg' = [arg EXCEPT ![h] = <<e.key>>]
    /\ pc' = [pc EXCEPT ![h] = "del_acq"]
    /\ UNCHANGED <<netVars, watched_items, watchlist_view, watchlist_lock, storeVars,
                   autoVars, uiVars, items_to_check, idx, evalVars>>

\* main.py:280-283
RemoveUnderLock(h) ==
    /\ pc[h] = "del"
    /\ watchlist_lock = h
    /\ watched_items' = DelItem(watched_items, arg[h][1])
    /\ watchlist_lock' = 0
    /\ pc' = [pc EXCEPT ![h] = "h_display"]
    /\ UNCHANGED <<netVars, watchlist_view, storeVars, autoVars, uiVars, localVars>>

HandlerAcquire(h) ==
    \/ Acquire(h, "add_acq", "add")
    \/ Acquire(h, "del_acq", "del")
    \/ Acquire(h, "save_acq", "save_dump")

\* save_watchlist, main.py:78: open(WATCHLIST_FILE, 'w') truncates the file
SaveOpen(h) ==
    /\ pc[h] = "save_open"
    /\ WATCHLIST_FILE' = [exists |-> TRUE, valid |-> FALSE, data |-> <<>>]
    /\ pc' = [pc EXCEPT ![h] = "save_acq"]
    /\ UNCHANGED <<netVars, watched_items, watchlist_view, watchlist_lock, MarketData,
                   inserts, clock, buffer, autoVars, uiVars, localVars>>

\* main.py:79: json.dump into the file object, under the lock
SaveDump(h) ==
    /\ pc[h] = "save_dump"
    /\ watchlist_lock = h
    /\ buffer' = [buffer EXCEPT ![h] = watched_items]
    /\ watchlist_lock' = 0
    /\ pc' = [pc EXCEPT ![h] = "save_close"]
    /\ UNCHANGED <<netVars, watched_items, watchlist_view, WATCHLIST_FILE, MarketData,
                   inserts, clock, autoVars, uiVars, localVars>>

\* The file after a file object opened with 'w' writes `text` at its close: the
\* text goes to position 0 of the file as it is by then, and what another file
\* object wrote beyond the text's end stays, which leaves no JSON document.
\* (Sizes are compared by the number of entries; the file keeps the longer
\* content's length.)
Flushed(file, text) ==
    IF Len(file.data) > Len(text)
    THEN [exists |-> TRUE, valid |-> FALSE, data |-> file.data]
    ELSE [exists |-> TRUE, valid |-> TRUE, data |-> text]

\* the end of the `with`: the lock is released (SaveDump), then the file object
\* is closed and its buffer written
SaveClose(h) ==
    /\ pc[h] = "save_close"
    /\ WATCHLIST_FILE' = Flushed(WATCHLIST_FILE, buffer[h])
    /\ buffer' = [buffer EXCEPT ![h] = <<>>]
    /\ arg' = [arg EXCEPT ![h] = <<>>]
    /\ pc' = [pc EXCEPT ![h] = "none"]
    /\ UNCHANGED <<netVars, watched_items, watchlist_view, watchlist_lock, MarketData,
                   inserts, clock, autoVars, uiVars, items_to_check, idx,
                   evalVars>>

save_watchlist(h) ==
    \/ SaveOpen(h)
    \/ SaveDump(h)
    \/ SaveClose(h)

WatchlistHandler(h) ==
    \/ HandlerAcquire(h)
    \/ AddUnderLock(h)
    \/ RemoveUnderLock(h)
    \/ Display(h, "h_display", "save_open")
    \/ save_watchlist(h)

\* ----------------------------------------------------- the specifications
\* The automatic loops of Spec and SpecEdit: one thread object at a time.
OneLoop == {MaxManual + 1}

\* The scheduler: manual cycles, the automatic loop, its checkbox.
Next ==
    \/ \E t \in ManualIds : check_watchlist_button_clicked(t)
    \/ \E t \in ManualIds : CycleBegin(t)
    \/ \E t \in Checkers : CheckCycle(t, Responses)
    \/ \E t \in AutoIds : run_automatic_checks(t)
    \/ \E enabled \in BOOLEAN : toggle_automatic_checks(enabled, OneLoop)

Spec == Init /\ [][Next]_vars

\* The single-item fetch alone.
NextFetch ==
    \/ fetch_button_clicked(FetchId, UserInputs)
    \/ fetch_single_item_thread(FetchId, Responses)

SpecFetch == Init /\ [][NextFetch]_vars

\* The same with a fetch thread that, once started, goes on running.
SpecFetchLive == SpecFetch /\ WF_vars(fetch_single_item_thread(FetchId, Responses))

\* The state SpecFetch reaches by one fetch of `item` answered with one sell
\* order at 85: the add button carries the item.
Fetched(w, item) ==
    InitWith(w, Append(InitialMarketData, Point(item, 85, Today)), 1,
             [disabled |-> FALSE, data |-> <<item, item>>],
             "Displaying orders. Stored price point.",
             Tagged(<<Order("sell", 85)>>, item))

InitEdit == \E w \in InitialWatchlists : Fetched(w, NumItems)

\* The handler of SpecEdit: one click at a time.
OneHandler == {MaxManual + MaxAuto + 1}

\* The automatic loop beside the user's adds and removes, after a fetch.
NextEdit ==
    \/ \E t \in Checkers : CheckCycle(t, Responses)
    \/ \E t \in AutoIds : run_automatic_checks(t)
    \/ \E enabled \in BOOLEAN : toggle_automatic_checks(enabled, OneLoop)
    \/ \E h \in OneHandler : add_watchlist_clicked(h) \/ remove_watchlist_item(h)
    \/ \E h \in OneHandler : WatchlistHandler(h)

SpecEdit == InitEdit /\ [][NextEdit]_vars

\* Several automatic loops: the checkbox switched off and on again.
NextAuto ==
    \/ \E t \in Checkers : CheckCycle(t, Responses)
    \/ \E t \in AutoIds : run_automatic_checks(t)
    \/ \E enabled \in BOOLEAN : toggle_automatic_checks(enabled, AutoIds)

SpecAuto == Init /\ [][NextAuto]_vars

\* main.py:464-466, the window is closed: the stop flag is set, which wakes a
\* loop that sleeps in Event.wait; the threads run on until the process ends.
app_closing ==
    /\ ~stop_auto_check_flag
    /\ stop_auto_check_flag' = TRUE
    /\ pc' = Notified
    /\ UNCHANGED <<netVars, watched_items, watchlist_view, watchlist_lock, storeVars,
                   auto_check_active_state, auto_check_thread, uiVars, localVars>>

\* The scheduler and the closing of the window.
NextClose ==
    \/ Next
    \/ app_closing

SpecClose == Init /\ [][NextClose]_vars

\* ------------------------------------------------ the evaluator's inputs
MaxHistory == 6

\* Every history of item 1 of four to MaxHistory sell prices in the window,
\* beside a point older than the window and a point of another item.
PriceLists == UNION {[1..n -> {60, 100}] : n \in 4..MaxHistory}

HistoryOf(prices) ==
    <<Point(1, 10, Today - HISTORY_DAYS - 1), Point(2, 10, Today)>>
        \o [k \in 1..Len(prices) |->
              Point(1, prices[k], Today - (k % (HISTORY_DAYS + 1)))]

EvalHistories == {HistoryOf(prices) : prices \in PriceLists}

\* A current minimum sell price around each threshold, or none: the request
\* fails, the answer has no orders field, no order, no sell order, no sell
\* order of a trader who is online.
EvalResponses ==
    {Ok(<<Order("sell", c), Order("sell", 200)>>) :
        c \in {50, 51, 52, 67, 68, 69, 80, 84, 85, 86, 90}}
    \cup { [kind |-> "error", orders |-> <<>>],
           [kind |-> "malformed", orders |-> <<>>],
           Ok(<<>>),
           Ok(<<Order("buy", 70)>>),
           Ok(<<RawOrder("sell", 50, "offline", PLATFORM, TRUE), Order("buy", 70)>>),
           Ok(<<Order("sell", KeyAbsent)>>),
           Ok(<<Order("sell", PyNone)>>) }

InitEval ==
    \E db \in EvalHistories :
        InitWith(<<NewEntry(1, 1)>>, db, 0, [disabled |-> TRUE, data |-> <<>>],
                 "Enter an item name and press 'Fetch' or Enter.", <<>>)

\* One manual cycle over one watched item, for every history and current price.
NextEval ==
    \/ \E t \in ManualIds : check_watchlist_button_clicked(t)
    \/ \E t \in ManualIds : CycleBegin(t)
    \/ \E t \in ManualIds : CheckCycle(t, EvalResponses)

SpecEval == InitEval /\ [][NextEval]_vars

\* -------------------------------------------------- the order books
MaxOrders == 3

\* The orders of an order book: two prices a side from traders in game or
\* online, an order of a trader who is offline, an invisible order, an order
\* of another platform, an order without a price, an order with a null price.
ApiOrders ==
    { Order("sell", 10), Order("sell", 20), Order("buy", 10),
      RawOrder("buy", 20, "ONLINE", PLATFORM, TRUE),
      RawOrder("sell", 5, "offline", PLATFORM, TRUE),
      RawOrder("buy", 30, "InGame", PLATFORM, FALSE),
      RawOrder("sell", 4, "online", "xbox", TRUE),
      Order("sell", KeyAbsent),
      Order("buy", PyNone) }

OrderBooks(from, n) == {Ok(orders) : orders \in UNION {[1..m -> from] : m \in 0..n}}

ApiResponses == OrderBooks(ApiOrders, MaxOrders)

\* ------------------------------------------------- the web application
\* The price points the requests of a run may add.
MaxServerInserts == 2

\* What a client asks: an item name, or none (0), and a platform.
Requests == [name : Items \cup {0}, platform : {PLATFORM, "xbox"}]

\* jsonify(...), status
Reply(status_code, orders) == [status |-> status_code, orders |-> orders]

\* What a request handler leaves unchanged: the desktop application.
ServerFrame ==
    UNCHANGED <<watched_items, watchlist_view, watchlist_lock, WATCHLIST_FILE, clock,
                buffer, autoVars, uiVars, pc, localVars, store_ok, UserSettings,
                db_answer, historical_prices>>

\* api/index.py:37-124, GET /api/fetch_item, one request from its arguments to
\* its answer. The handler obtains a connection, which may fail, and hands it
\* to the inserts, whose errors reach its except clauses.
fetch_item(requests, responses) ==
    /\ inserts + 2 <= MaxServerInserts
    /\ \E req \in requests, response_ \in responses,
          db \in {"ok", "no connection", "sell insert fails", "buy insert fails"} :
         LET got == get_market_data(response_, req.platform)
             best == BestOf(got.orders)
             conn_ok == db # "no connection"
             sell_ok == db # "sell insert fails"
             buy_ok == db # "buy insert fails"
             stored == insert_market_data(MarketData, TRUE, req.name, req.platform,
                                          clock, "sell", best.min_sell)
         IN /\ request' = req
            /\ IF req.name = 0
               THEN /\ http_response' = Reply(400, <<>>)
                    /\ UNCHANGED <<response, MarketData>>
               ELSE /\ response' = [response EXCEPT ![ServerId] = response_]
                    /\ IF got.is_none
                       THEN http_response' = Reply(200, <<>>) /\ UNCHANGED MarketData
                       ELSE IF ~conn_ok \/ best.raised
                       THEN http_response' = Reply(500, <<>>) /\ UNCHANGED MarketData
                       ELSE IF best.min_sell # PyNone /\ ~sell_ok
                       THEN http_response' = Reply(500, <<>>) /\ UNCHANGED MarketData
                       ELSE IF best.max_buy # PyNone /\ ~buy_ok
                       THEN http_response' = Reply(500, <<>>) /\ MarketData' = stored
                       ELSE /\ http_response' = Reply(200, Tagged(got.orders, req.name))
                            /\ MarketData' =
                                  insert_market_data(stored, TRUE, req.name, req.platform,
                                                     clock, "buy", best.max_buy)
    /\ inserts' = inserts + Len(MarketData') - Len(MarketData)
    /\ ServerFrame

\* index.py:40-84, the earlier GET /api/fetch_item: the inserts open their own
\* connections and keep their errors to themselves.
index_fetch_item(requests, responses) ==
    /\ inserts + 2 <= MaxServerInserts
    /\ \E req \in requests, response_ \in responses, sell_ok, buy_ok \in BOOLEAN :
         LET got == get_market_data(response_, req.platform)
             best == BestOf(got.orders)
         IN /\ request' = req
            /\ IF req.name = 0
               THEN /\ http_response' = Reply(400, <<>>)
                    /\ UNCHANGED <<response, MarketData>>
               ELSE /\ response' = [response EXCEPT ![ServerId] = response_]
                    /\ IF got.is_none
                       THEN http_response' = Reply(200, <<>>) /\ UNCHANGED MarketData
                       ELSE IF best.raised
                       THEN http_response' = Reply(500, <<>>) /\ UNCHANGED MarketData
                       ELSE /\ http_response' = Reply(200, Tagged(got.orders, req.name))
                            /\ MarketData' =
                                  StorePricePoints(MarketData, sell_ok, buy_ok, req.name,
                                                   req.platform, clock, best)
    /\ inserts' = inserts + Len(MarketData') - Len(MarketData)
    /\ ServerFrame

MaxBook == 2

\* What the upstream answers a request of the web application.
ServerResponses ==
    OrderBooks(ApiOrders \ {Order("sell", 20), Order("sell", KeyAbsent)}, MaxBook) \cup { [kind |-> "error", orders |-> <<>>],
                               [kind |-> "malformed", orders |-> <<>>] }

NextServer ==
    \/ fetch_item(Requests, ServerResponses)
    \/ index_fetch_item(Requests, ServerResponses)

InitServer ==
    InitWith(<<>>, <<>>, 0, [disabled |-> TRUE, data |-> <<>>],
             "Enter an item name and press 'Fetch' or Enter.", <<>>)

SpecServer == InitServer /\ [][NextServer]_vars

\* One manual cycle over one watched item, for every order book.
NextBest ==
    \/ \E t \in ManualIds : check_watchlist_button_clicked(t)
    \/ \E t \in ManualIds : CycleBegin(t)
    \/ \E t \in ManualIds : CheckCycle(t, ApiResponses)

InitBest ==
    InitWith(<<NewEntry(1, 1)>>, InitialMarketData, 0,
             [disabled |-> TRUE, data |-> <<>>],
             "Enter an item name and press 'Fetch' or Enter.", <<>>)

SpecBest == InitBest /\ [][NextBest]_vars

\* ------------------------------------------------- the stored watchlist
\* The body of a POST: a JSON object (a watchlist), a JSON array, or bytes
\* that are not JSON.
Body(kind, w) == [kind |-> kind, data |-> w]
NoBody == Body("none", <<>>)
Bodies ==
    {Body("object", w) : w \in InitialWatchlists}
        \cup {Body("array", <<>>), Body("invalid", <<>>)}

WatchlistRequest(method, body) == [method |-> method, body |-> body]

\* jsonify(watchlist or message), status
WatchlistReply(status_code, w, message) ==
    [status |-> status_code, watchlist |-> w, message |-> message]

\* What the database does in a request: it answers, or the connection or the
\* statement raises pg8000.Error, or get_db_connection raises ValueError.
DbAnswers == {"ok", "pg8000.Error", "ValueError"}

\* load_watchlist_db that finds no row, whatever is stored.
LoadNothing(us, db_ok) == <<>>

\* database_handler.py:157-179: the row's watchlist, {} when there is no row,
\* when the stored watchlist is empty and when the read fails
load_watchlist_db(us, db_ok) ==
    IF db_ok /\ us.present /\ us.watchlist # <<>> THEN us.watchlist ELSE <<>>

\* database_handler.py:181-204: line 194 calls json.dumps in a module that
\* does not import json; the NameError is caught at line 199 as a failed
\* connection is, and no row is written.
save_watchlist_db(us, db_ok, w) == us

\* save_watchlist_db(conn, ...) as api/index.py:178 calls it, with the
\* handler's connection: the row is inserted or updated (line 184-187)
save_watchlist_db_conn(us, w) == Row(w)

\* What a watchlist request leaves unchanged: the desktop application, the
\* price history and the upstream.
WatchlistFrame ==
    UNCHANGED <<watched_items, watchlist_view, watchlist_lock, storeVars, autoVars,
                uiVars, pc, localVars, store_ok, response, historical_prices>>

\* index.py:87-96, GET /api/watchlist
index_get_watchlist ==
    /\ \E db \in DbAnswers :
         /\ db_answer' = db
         /\ http_response' =
               WatchlistReply(200, load_watchlist_db(UserSettings, db = "ok"), "")
    /\ request' = WatchlistRequest("GET", NoBody)
    /\ UNCHANGED UserSettings
    /\ WatchlistFrame

\* index.py:98-111, POST /api/watchlist: request.json raises BadRequest on
\* bytes that are not JSON, inside the try whose `except Exception` answers 500
index_save_watchlist(bodies) ==
    /\ \E body \in bodies, db \in DbAnswers :
         /\ request' = WatchlistRequest("POST", body)
         /\ IF body.kind = "invalid"
            THEN /\ http_response' = WatchlistReply(500, <<>>, "Failed to save watchlist")
                 /\ UNCHANGED <<UserSettings, db_answer>>
            ELSE IF body.kind # "object"
            THEN /\ http_response' = WatchlistReply(400, <<>>, "Invalid data format")
                 /\ UNCHANGED <<UserSettings, db_answer>>
            ELSE /\ db_answer' = db
                 /\ UserSettings' = save_watchlist_db(UserSettings, db = "ok", body.data)
                 /\ http_response' =
                       WatchlistReply(200, <<>>, "Watchlist saved successfully")
    /\ WatchlistFrame

\* api/index.py:127-158, GET /api/watchlist with the handler's own connection
get_watchlist ==
    /\ \E db \in DbAnswers :
         /\ db_answer' = db
         /\ http_response' =
               IF db = "ok"
               THEN WatchlistReply(200, load_watchlist_db(UserSettings, TRUE), "")
               ELSE IF db = "pg8000.Error"
               THEN WatchlistReply(500, <<>>, "Database error loading watchlist")
               ELSE WatchlistReply(500, <<>>, "Failed to load watchlist")
    /\ request' = WatchlistRequest("GET", NoBody)
    /\ UNCHANGED UserSettings
    /\ WatchlistFrame

\* api/index.py:161-192, POST /api/watchlist: BadRequest is neither a
\* JSONDecodeError nor a pg8000.Error, `except Exception` answers 500
api_save_watchlist(bodies) ==
    /\ \E body \in bodies, db \in DbAnswers :
         /\ request' = WatchlistRequest("POST", body)
         /\ IF body.kind = "invalid"
            THEN /\ http_response' = WatchlistReply(500, <<>>, "Failed to save watchlist")
                 /\ UNCHANGED <<UserSettings, db_answer>>
            ELSE IF body.kind # "object"
            THEN /\ http_response' = WatchlistReply(400, <<>>, "Invalid data format")
                 /\ UNCHANGED <<UserSettings, db_answer>>
            ELSE /\ db_answer' = db
                 /\ IF db = "ok"
                    THEN /\ UserSettings' = save_watchlist_db_conn(UserSettings, body.data)
                         /\ http_response' =
                               WatchlistReply(200, <<>>, "Watchlist saved successfully")
                    ELSE /\ UNCHANGED UserSettings
                         /\ http_response' =
                               WatchlistReply(500, <<>>,
                                  IF db = "pg8000.Error"
                                  THEN "Database error saving watchlist"
                                  ELSE "Failed to save watchlist")
    /\ WatchlistFrame

\* ---------------------------------------------------------- ingestion
\* Order books whose best prices are not their first prices, and one whose
\* lowest sell price is of a trader who is offline.
IngestResponses ==
    { [kind |-> "error", orders |-> <<>>],
      Ok(<<>>),
      Ok(<<Order("sell", 20), Order("sell", 10), Order("buy", 10),
           RawOrder("buy", 20, "ONLINE", PLATFORM, TRUE)>>),
      Ok(<<RawOrder("sell", 5, "offline", PLATFORM, TRUE), Order("sell", 20)>>) }

\* The three fetches that store price points: the desktop's fetch thread and
\* the two request handlers.
NextIngest ==
    \/ fetch_button_clicked(FetchId, UserInputs)
    \/ fetch_single_item_thread(FetchId, IngestResponses)
    \/ fetch_item({[name |-> 1, platform |-> PLATFORM]}, IngestResponses)
    \/ index_fetch_item({[name |-> 1, platform |-> PLATFORM]}, IngestResponses)

SpecIngest == Init /\ [][NextIngest]_vars

\* The requests of the web application for one item of one platform.
WebRequests == {[name |-> 0, platform |-> PLATFORM], [name |-> 1, platform |-> PLATFORM]}

\* The web application: both deployments' handlers.
NextWeb ==
    \/ index_get_watchlist
    \/ index_save_watchlist(Bodies)
    \/ get_watchlist
    \/ api_save_watchlist(Bodies)
    \/ fetch_item(WebRequests, IngestResponses)
    \/ index_fetch_item(WebRequests, IngestResponses)

SpecWeb == InitServer /\ [][NextWeb]_vars

\* The fetch thread beside one manual cycle over one watched item: the two
\* callers of the upstream in the desktop application.
NextHistory ==
    \/ fetch_button_clicked(FetchId, UserInputs)
    \/ fetch_single_item_thread(FetchId, IngestResponses)
    \/ \E t \in ManualIds : check_watchlist_button_clicked(t)
    \/ \E t \in ManualIds : CycleBegin(t)
    \/ \E t \in ManualIds : CheckCycle(t, IngestResponses)

SpecHistory == InitBest /\ [][NextHistory]_vars

\* ------------------------------------------------ the handlers alone
\* An entry that an earlier session checked and saved, under a display name
\* of its own (main.py:50: the loaded dictionary is taken as it is).
SavedEntry(key) ==
    [key |-> key, status |-> "Good Buy!", last_checked |-> "%Y-%m-%d %H:%M",
     friendly_name |-> UpperA]

SavedWatchlists ==
    InitialWatchlists
        \cup {<<SavedEntry(NumItems)>>, <<NewEntry(1, 1), SavedEntry(NumItems)>>}

InitHandlers == \E w \in SavedWatchlists : Fetched(w, NumItems)

\* The user's adds and removes, each click served by a handler of its own.
NextHandlers ==
    \/ \E h \in HandlerIds : add_watchlist_clicked(h)
    \/ \E h \in HandlerIds : remove_watchlist_item(h)
    \/ \E h \in HandlerIds : WatchlistHandler(h)

SpecHandlers == InitHandlers /\ [][NextHandlers]_vars

\* ------------------------------------------------- the start of the program
\* main, main.py:88-153, run again after the window was closed with no thread
\* at work: the watchlist is loaded from the file, the controls are built.
main ==
    /\ \A t \in Threads : pc[t] = "none"
    /\ watched_items' = load_watchlist(WATCHLIST_FILE)
    /\ watchlist_view' = SortedByName(load_watchlist(WATCHLIST_FILE))
    /\ stop_auto_check_flag' = FALSE
    /\ auto_check_active_state' = FALSE
    /\ auto_check_thread' = 0
    /\ controls_disabled' = FALSE
    /\ add_watchlist_button' = [disabled |-> TRUE, data |-> <<>>]
    /\ watchlist_status_text' = "Watchlist Status: Idle"
    /\ search_status_text' = "Enter an item name and press 'Fetch' or Enter."
    /\ current_orders_data' = <<>>
    /\ live_order_filter' = "all"
    /\ live_data_table' = Table(PyNone, TRUE, <<>>)
    /\ UNCHANGED <<netVars, watchlist_lock, data_lock, storeVars, pc, localVars>>

\* The state after one fetch of `item`, over a watchlist file or none.
FetchedFrom(file, item) ==
    InitFrom(file, Append(InitialMarketData, Point(item, 85, Today)), 1,
             [disabled |-> FALSE, data |-> <<item, item>>],
             "Displaying orders. Stored price point.",
             Tagged(<<Order("sell", 85)>>, item))

InitLoad ==
    \E file \in {NoFile, SavedFile(<<NewEntry(1, 1)>>), SavedFile(<<SavedEntry(NumItems)>>)} :
        FetchedFrom(file, NumItems)

\* The watchlists a browser posts.
LoadBodies == {Body("object", <<>>), Body("object", <<NewEntry(1, 1)>>)}

\* Saving and loading the watchlist: the desktop's file across two runs of the
\* program, the web application's row across requests.
NextLoad ==
    \/ main
    \/ \E h \in OneHandler : add_watchlist_clicked(h) \/ remove_watchlist_item(h)
    \/ \E h \in OneHandler : WatchlistHandler(h)
    \/ index_get_watchlist
    \/ get_watchlist
    \/ index_save_watchlist(LoadBodies)
    \/ api_save_watchlist(LoadBodies)

SpecLoad == InitLoad /\ [][NextLoad]_vars

\* ------------------------------------------------------- the item keys
MaxTyped == 3

\* Every string of up to MaxTyped characters.
Strings == {Code(s) : s \in UNION {[1..n -> Chars] : n \in 0..MaxTyped}}

\* What the user types in the item field: " ", " A", "A b" and "a_b".
TypedInputs ==
    {Code(s) : s \in {<<Space>>, <<Space, UpperA>>, <<UpperA, Space, 2>>,
                      <<1, Underscore, 2>>}}

\* What the upstream answers for whatever name it is asked.
KeyResponses == { Ok(<<Order("sell", 10), Order("buy", 5)>>) }

\* The requests and the watchlists of a client that sends names as typed:
\* no name, "a" and "A b".
KeyRequests ==
    {[name |-> Code(s), platform |-> PLATFORM] : s \in {<<>>, <<1>>, <<UpperA, Space, 2>>}}
KeyBodies ==
    {Body("object", <<NewEntry(Code(s), Code(s))>>) :
        s \in {<<1>>, <<UpperA, Space, 2>>}}

\* The ways of a name as typed into the price history and the watchlist: the
\* desktop's fetch, which hands its key to the add button, and the web
\* application's fetch and save.
NextKeys ==
    \/ fetch_button_clicked(FetchId, TypedInputs)
    \/ fetch_single_item_thread(FetchId, KeyResponses)
    \/ fetch_item(KeyRequests, KeyResponses)
    \/ api_save_watchlist(KeyBodies)

SpecKeys == InitServer /\ [][NextKeys]_vars

\* The radio group's values (main.py:134) and the price column (main.py:144).
Filters == {"all", "sell", "buy"}
SortColumns == {5}

\* What the upstream answers while the user is at work.
UIResponses == { Ok(<<Order("sell", 85), Order("buy", 70)>>) }

\* The entry of every handler of a user event: the fetch button, the check
\* button, the checkbox, the add button, a tile's delete icon, the radio group
\* and a column header.
Click ==
    \/ fetch_button_clicked(FetchId, {NumItems})
    \/ \E t \in ManualIds : check_watchlist_button_clicked(t)
    \/ \E enabled \in BOOLEAN : toggle_automatic_checks(enabled, OneLoop)
    \/ \E h \in OneHandler : add_watchlist_clicked(h) \/ remove_watchlist_item(h)
    \/ live_filter_changed(TableId, {"buy"})
    \/ handle_sort(TableId, SortColumns)

\* What a handler does after its entry, up to its return.
HandlerRest ==
    \/ \E h \in OneHandler : WatchlistHandler(h)
    \/ TableHandler(TableId)

UserEvent == Click \/ HandlerRest

\* No handler and no thread is at work; the automatic loop, if any, sleeps
\* between two cycles (main.py:294).
Quiet == \A t \in Threads : pc[t] \in {"none", "crashed", "sleeping"}

\* The same of the threads other than t.
Alone(t) == \A u \in Threads \ {t} : pc[u] \in {"none", "crashed", "sleeping"}

\* The user at the window, one input at a time, and the threads that the
\* inputs start; the automatic loop goes on while nothing else is at work.
NextUI ==
    \/ Quiet /\ Click
    \/ HandlerRest
    \/ fetch_single_item_thread(FetchId, UIResponses)
    \/ \E t \in ManualIds : CycleBegin(t)
    \/ \E t \in ManualIds : CheckCycle(t, UIResponses)
    \/ \E t \in OneLoop : Alone(t) /\ CheckCycle(t, UIResponses)
    \/ \E t \in OneLoop : Alone(t) /\ run_automatic_checks(t)

InitUI == InitWith(<<>>, InitialMarketData, 0,
                   [disabled |-> TRUE, data |-> <<>>],
                   "Enter an item name and press 'Fetch' or Enter.", <<>>)

SpecUI == InitUI /\ [][NextUI]_vars

\* The answers to a fetch: an order book that the table renders, and one with
\* an order without a price, at which the rendering raises inside the `with`.
LockResponses == UIResponses \cup { Ok(<<Order("sell", PyNone)>>) }

\* The threads that use watchlist_lock and those that use data_lock.
ListUsers == ManualIds \cup OneHandler
TableUsers == {FetchId, TableId}

\* One step of a started thread or handler.
ThreadStep(t) ==
    \/ t \in OneHandler /\ WatchlistHandler(t)
    \/ t = TableId /\ TableHandler(t)
    \/ t = FetchId /\ fetch_single_item_thread(t, LockResponses)
    \/ t \in ManualIds /\ (CycleBegin(t) \/ CheckCycle(t, UIResponses))

\* The users of each lock beside one another: a fetch and a change of the
\* filter, a manual cycle and an add or a remove; the user turns from the
\* table to the watchlist, and back, when the threads of the other are done.
NextLocks ==
    \/ /\ \A t \in ListUsers : ~is_alive(t)
       /\ \/ fetch_button_clicked(FetchId, {NumItems})
          \/ live_filter_changed(TableId, {"sell"})
    \/ /\ \A t \in TableUsers : ~is_alive(t)
       /\ \/ \E t \in ManualIds : check_watchlist_button_clicked(t)
          \/ \E h \in OneHandler : add_watchlist_clicked(h) \/ remove_watchlist_item(h)
    \/ \E t \in ListUsers \cup TableUsers : ThreadStep(t)

InitLocks == Fetched(<<>>, NumItems)

\* A started thread goes on running, and a thread that waits for a lock which
\* is released again and again gets it.
SpecLocks ==
    /\ InitLocks /\ [][NextLocks]_vars
    /\ \A t \in ListUsers \cup TableUsers : SF_vars(ThreadStep(t))

\* database_handler.py:3-6: the module imports os, dotenv, pg8000 and urlparse.
\* Line 135 evaluates datetime.datetime.now: the name is not defined, the
\* NameError is caught at line 150 and the function returns its empty list.
DatetimeImported == FALSE

\* A call of get_historical_prices_for_item as database_handler.py of src has
\* it, with days = 7.
windowed(items, platforms, sides) ==
    /\ \E item \in items, platform \in platforms, side \in sides :
         historical_prices' =
            [item_url_name |-> item, platform |-> platform, order_type |-> side,
             prices |-> get_historical_prices_for_item(MarketData, DatetimeImported,
                            item, platform, HISTORY_DAYS, side, clock)]
    /\ UNCHANGED <<response, request, http_response, store_ok, UserSettings, db_answer,
                   watched_items, watchlist_view, watchlist_lock, storeVars,
                   autoVars, uiVars, pc, localVars>>

\* Price points around the window's start: of today, of 7 days ago, of 8 days
\* ago, and of another item, platform and side.
WindowPoints ==
    <<Point(1, 10, Today), Point(1, 20, Today - 1),
      Point(1, 30, Today - HISTORY_DAYS), Point(1, 40, Today - HISTORY_DAYS - 1),
      Point(2, 50, Today),
      [Point(1, 60, Today) EXCEPT !.platform = "xbox"],
      [Point(1, 70, Today) EXCEPT !.order_type = "buy"]>>

\* Every selection of the points, in their order of insertion.
WindowHistories ==
    {SelectSeq(WindowPoints, LAMBDA p : p.price \in chosen) :
        chosen \in SUBSET {WindowPoints[k].price : k \in 1..Len(WindowPoints)}}

InitWindow ==
    \E db \in WindowHistories :
        InitWith(<<>>, db, 0, [disabled |-> TRUE, data |-> <<>>],
                 "Enter an item name and press 'Fetch' or Enter.", <<>>)

\* Reads of the price history by item, platform and side.
NextWindow == windowed(Items, {PLATFORM, "xbox"}, {"sell", "buy"})

SpecWindow == InitWindow /\ [][NextWindow]_vars

\* ================================================================ claims
\* A thread inside check_watched_item_deal: its market call or its history read.
Evaluating(t) == pc[t] \in {"eval", "hist"}

\* A thread inside the body of check_watchlist_prices_thread.
InCycle(t) ==
    pc[t] \in {"begin", "snap_acq", "snap", "loop", "empty", "complete", "mark_acq",
               "mark", "display1", "eval", "hist", "write_acq", "write",
               "display2", "sleep"}

NoCycleRunning == \A t \in Checkers : ~InCycle(t)

\* C1: watched items are evaluated in sequence, never concurrently: in every
\* reachable state at most one watchlist item evaluation (check_watched_item_deal
\* and its upstream market call) is in progress.
C1_OneEvaluationAtATime == Cardinality({t \in Checkers : Evaluating(t)}) <= 1

\* C2: a check cycle never aborts because one item's evaluation failed: whatever
\* the outcome of an item's market call (a failed fetch, an error raised inside
\* the evaluator), the cycle goes on to the history read or to recording a
\* status for that item, and so to the later items.
C2_EvaluationFailureIsRecorded ==
    [][\A t \in Checkers :
          (pc[t] = "eval" /\ pc'[t] # "eval") => pc'[t] \in {"hist", "write_acq"}]_vars

\* C3: when a check cycle over a non-empty snapshot has finished, the persisted
\* watchlist holds the statuses and last_checked values the cycle wrote: with the
\* manual cycle reported complete and no cycle running, the file equals the
\* in-memory watchlist.
C3_FinishedCycleIsPersisted ==
    (watchlist_status_text = "Watchlist check complete." /\ NoCycleRunning)
        => (WATCHLIST_FILE.valid /\ WATCHLIST_FILE.data = watched_items)

\* The steps of one item of a cycle, from its mark to its pacing sleep.
ItemSteps ==
    {"mark_acq", "mark", "display1", "eval", "hist", "write_acq", "write",
     "display2", "sleep"}

FinalStatuses ==
    {"Error: API Fetch Failed", "Not Enough Data (<5)", "Good Buy!", "Normal"}

\* C4: an automatic cycle that finds the stop flag set when item k has completed
\* and item k+1 has not started stops at once: it neither marks nor evaluates
\* the items k+1..n, whose status and last_checked it leaves as they were, and
\* items 1..k carry the results it wrote. Step by step: the loop head with the
\* flag set leads to the return with the watchlist unchanged; a step of the cycle
\* changes no entry but its current item's; the position only advances over a
\* fixed snapshot; the write puts the evaluated status and the time.
C4_CancelLeavesRemainingItemsUntouched ==
    [][\A t \in AutoIds :
        LET n == Len(items_to_check[t]) IN
        /\ (pc[t] = "loop" /\ idx[t] <= n /\ stop_auto_check_flag /\ pc'[t] # "loop")
              => (pc'[t] = "complete" /\ watched_items' = watched_items)
        /\ (pc[t] = "complete" /\ pc'[t] # "complete")
              => (pc'[t] = "while" /\ watched_items' = watched_items)
        /\ (InCycle(t) /\ pc'[t] # pc[t] /\ watched_items' # watched_items)
              => /\ idx[t] <= n
                 /\ Len(watched_items') = Len(watched_items)
                 /\ \A j \in 1..Len(watched_items) :
                       watched_items[j].key # items_to_check[t][idx[t]]
                          => watched_items'[j] = watched_items[j]
        /\ (pc[t] \in ItemSteps \cup {"loop"} /\ pc'[t] \in ItemSteps \cup {"loop"})
              => (items_to_check'[t] = items_to_check[t] /\ idx'[t] >= idx[t])
        /\ (pc[t] = "write" /\ pc'[t] = "display2")
              => \A j \in 1..Len(watched_items) :
                    watched_items[j].key = items_to_check[t][idx[t]]
                       => /\ watched_items'[j].status = status[t]
                          /\ watched_items'[j].status \in FinalStatuses
                          /\ watched_items'[j].last_checked = "%Y-%m-%d %H:%M"
      ]_vars

\* Witness of C4: an automatic cycle over two items stopped by the flag after its
\* first item, which carries a result, the second being as loaded.
C4_Witness ==
    \E t \in AutoIds :
        /\ pc[t] = "complete"
        /\ stop_auto_check_flag
        /\ Len(items_to_check[t]) = 2
        /\ idx[t] = 2
        /\ Len(watched_items) = 2
        /\ watched_items[1].status \in FinalStatuses
        /\ watched_items[2] = NewEntry(items_to_check[t][2], 1)

C6_StoppedLoopStartsNoCycle ==
    [][\A t \in AutoIds :
          (is_alive(t) /\ auto_check_thread # t)
          => ~(pc[t] = "decide" /\ pc'[t] = "snap_acq")]_vars

\* The steps that read and write watched_items inside `with watchlist_lock:`.
LockedSteps == {"snap", "mark", "write", "add", "del", "save_dump"}

\* C7: no lost update between a checker and the user's edits. The thread at a
\* step that tests membership and writes holds watchlist_lock; the watchlist
\* changes only in a step of the thread that holds the lock, which that step
\* releases; a checker's step neither adds nor removes a key (its status write
\* does not put a removed item back); an add leaves its item present and the
\* other entries as they were; a remove leaves its item absent and the others
\* as they were.
C7_EditsAndStatusWritesUnderLock ==
    /\ [](\A t \in Threads : pc[t] \in LockedSteps => watchlist_lock = t)
    /\ [][/\ watched_items' # watched_items
                => \E t \in Threads :
                      /\ watchlist_lock = t
                      /\ watchlist_lock' = 0
                      /\ pc[t] \in {"mark", "write", "add", "del"}
                      /\ pc'[t] # pc[t]
          /\ \A t \in Checkers :
                pc'[t] # pc[t] => Keys(watched_items') = Keys(watched_items)
          /\ \A h \in HandlerIds :
                /\ (pc[h] = "add" /\ pc'[h] # "add")
                      => /\ Has(watched_items', arg[h][1])
                         /\ \A j \in 1..Len(watched_items) :
                               watched_items'[j] = watched_items[j]
                /\ (pc[h] = "del" /\ pc'[h] # "del")
                      => /\ ~Has(watched_items', arg[h][1])
                         /\ watched_items' =
                               SelectSeq(watched_items,
                                         LAMBDA e : e.key # arg[h][1])
         ]_vars

\* Witness of C7: a checker has just passed the status write of an item that was
\* removed during its cycle and is absent, and an item that is not in its
\* snapshot, added during the cycle, is present.
C7_Witness ==
    \E t \in Checkers :
        /\ pc[t] = "display2"
        /\ ~Has(watched_items, items_to_check[t][idx[t]])
        /\ \E j \in 1..Len(watched_items) :
              watched_items[j].key \notin Range(items_to_check[t])

C9_EmptyWatchlistCycle ==
    /\ [](\A t \in Checkers :
             pc[t] \in ItemSteps \cup {"complete"} => items_to_check[t] # <<>>)
    /\ [][\A t \in Checkers :
            /\ (pc[t] = "snap" /\ pc'[t] # "snap" /\ watched_items = <<>>)
                  => (pc'[t] = "loop" /\ items_to_check'[t] = <<>>
                        /\ watched_items' = <<>>)
            /\ (pc[t] = "loop" /\ pc'[t] # "loop" /\ items_to_check[t] = <<>>)
                  => (pc'[t] = "empty"
                        /\ UNCHANGED <<watched_items, MarketData, inserts>>)
            /\ (pc[t] = "empty" /\ pc'[t] # "empty")
                  => /\ pc'[t] = AfterCycle(t)
                     /\ UNCHANGED <<watched_items, MarketData, inserts>>
                     /\ t \in ManualIds
                           => /\ watchlist_status_text' = "Watchlist is empty."
                              /\ ~controls_disabled'
         ]_vars

\* Witness of C9: the manual cycle over the empty watchlist has returned, its
\* report shown, the controls enabled, the watchlist empty.
C9_Witness ==
    /\ watchlist_status_text = "Watchlist is empty."
    /\ \A t \in ManualIds : pc[t] = "none"
    /\ ~controls_disabled
    /\ watched_items = <<>>

WindowCount(t) ==
    Cardinality({k \in 1..Len(MarketData) :
                   /\ MarketData[k].item_url_name = items_to_check[t][idx[t]]
                   /\ MarketData[k].platform = "pc"
                   /\ MarketData[k].order_type = "sell"
                   /\ MarketData[k].timestamp >= clock - 7})

C12_AbsentPriceIsApiFetchFailed ==
    [][\A t \in ManualIds :
          (pc[t] = "eval" /\ pc'[t] # "eval")
          => LET r == response'[t]
                 sells == {k \in 1..Len(r.orders) :
                             /\ r.orders[k].order_type = "sell"
                             /\ r.orders[k].platinum \notin {KeyAbsent, PyNone}
                             /\ r.orders[k].user_platform = "pc"
                             /\ r.orders[k].user_status \in {"ingame", "online"}
                             /\ r.orders[k].visible}
             IN IF r.kind # "ok" \/ sells = {}
                THEN /\ status'[t] = "Error: API Fetch Failed"
                     /\ current_min_sell'[t] = PyNone
                     /\ pc'[t] = "write_acq"
                     /\ historical_sell_prices'[t] = <<>>
                ELSE /\ pc'[t] = "hist"
                     /\ current_min_sell'[t] # PyNone
      ]_vars

\* Witness of C12: the answer holds a buy order and no sell order; the status is
\* "Error: API Fetch Failed" and no history was read.
C12_Witness ==
    \E t \in ManualIds :
        /\ pc[t] = "write_acq"
        /\ response[t] = Ok(<<Order("buy", 70)>>)
        /\ status[t] = "Error: API Fetch Failed"
        /\ historical_sell_prices[t] = <<>>

C14_FetchKeepsExactlyRelevantOrders ==
    [][(request'.name # 0 /\ response'[ServerId].kind = "ok"
          /\ http_response'.status = 200)
       => LET raw == response'[ServerId].orders
              kept == SelectSeq(raw, LAMBDA o :
                         /\ o.user_status \in {"ingame", "InGame", "online", "ONLINE"}
                         /\ o.visible
                         /\ o.user_platform = request'.platform)
              got == http_response'.orders
          IN /\ Len(got) = Len(kept)
             /\ \A k \in 1..Len(got) :
                   /\ got[k].order_type = kept[k].order_type
                   /\ got[k].platinum = kept[k].platinum
                   /\ got[k].user_status = kept[k].user_status
                   /\ got[k].user_platform = kept[k].user_platform
                   /\ got[k].visible = kept[k].visible
      ]_vars

\* Witness of C14: of two orders the upstream listed for an xbox request, the
\* one of an online xbox trader is returned and the other is not.
C14_Witness ==
    /\ request.platform = "xbox"
    /\ http_response.status = 200
    /\ Len(response[ServerId].orders) = 2
    /\ Len(http_response.orders) = 1
    /\ http_response.orders[1].user_platform = "xbox"

\* C15: insert_market_data with a None price writes nothing, whether or not the
\* store can be reached; with a price it adds exactly one point, the points
\* already stored staying as they are, and a second call with the same point
\* adds a second copy. In the running program the price history only grows at
\* its end, by at most one point a side and a fetch, never by a point whose
\* price is None.
C15_AppendOnlyAndNoNullPoint ==
    /\ [](\A item \in Items, side \in {"sell", "buy"} :
            LET point(price) == [item_url_name |-> item, platform |-> "pc",
                                 order_type |-> side, price |-> price,
                                 timestamp |-> clock]
                once(price) == insert_market_data(MarketData, TRUE, item, "pc", clock,
                                                  side, price)
                twice(price) == insert_market_data(once(price), TRUE, item, "pc", clock,
                                                   side, price)
            IN /\ \A db_ok \in BOOLEAN :
                     insert_market_data(MarketData, db_ok, item, "pc", clock, side,
                                        PyNone) = MarketData
               /\ \A price \in {10, 80} :
                     /\ once(price) = MarketData \o <<point(price)>>
                     /\ twice(price) = MarketData \o <<point(price), point(price)>>)
    /\ [][LET added == SubSeq(MarketData', Len(MarketData) + 1, Len(MarketData'))
          IN /\ Len(MarketData') >= Len(MarketData)
             /\ SubSeq(MarketData', 1, Len(MarketData)) = MarketData
             /\ Len(added) <= 2
             /\ \A k \in 1..Len(added) : added[k].price # PyNone
             /\ Len(added) = 2 => added[1].order_type # added[2].order_type
         ]_vars

\* Witness of C15: the price history holds the same fetched point twice.
C15_Witness ==
    \E i, j \in (Len(InitialMarketData) + 1)..Len(MarketData) :
        i < j /\ MarketData[i] = MarketData[j]

\* C16: a price point is stored with the extremal price of its side among the
\* filtered orders of the fetch that stores it: every point a step adds is of the
\* fetched item, platform and time, its price the least among the filtered sell
\* orders for a sell point and the greatest among the filtered buy orders for a
\* buy point, and never None.
C16_StoredPriceIsExtremal ==
    [][MarketData' # MarketData
       => LET desktop == pc'[FetchId] # pc[FetchId]
              r == IF desktop THEN response'[FetchId] ELSE response'[ServerId]
              item == IF desktop THEN arg[FetchId][1] ELSE request'.name
              platform == IF desktop THEN "pc" ELSE request'.platform
              prices(side) ==
                  {r.orders[k].platinum :
                     k \in {j \in 1..Len(r.orders) :
                              /\ r.orders[j].order_type = side
                              /\ r.orders[j].user_platform = platform
                              /\ r.orders[j].user_status \in
                                    {"ingame", "InGame", "online", "ONLINE"}
                              /\ r.orders[j].visible}}
              added == SubSeq(MarketData', Len(MarketData) + 1, Len(MarketData'))
          IN /\ SubSeq(MarketData', 1, Len(MarketData)) = MarketData
             /\ \A k \in 1..Len(added) :
                   /\ added[k].item_url_name = item
                   /\ added[k].platform = platform
                   /\ added[k].timestamp = clock
                   /\ added[k].price \in prices(added[k].order_type)
                   /\ added[k].price # PyNone
                   /\ \A q \in prices(added[k].order_type) :
                         IF added[k].order_type = "sell"
                         THEN added[k].price <= q ELSE added[k].price >= q
      ]_vars

\* Witness of C16: the fetch thread has stored the sell point 10 and the buy
\* point 20 of an order book that lists the sell price 20 and the buy price 10
\* first.
C16_Witness ==
    /\ pc[FetchId] = "f_ok"
    /\ Len(response[FetchId].orders) = 4
    /\ Len(MarketData) >= 2
    /\ MarketData[Len(MarketData) - 1].price = 10
    /\ MarketData[Len(MarketData) - 1].order_type = "sell"
    /\ MarketData[Len(MarketData)].price = 20
    /\ MarketData[Len(MarketData)].order_type = "buy"

\* The prices of the relevant orders of `side` in the upstream's answer `r`.
RelevantPrices(r, side) ==
    {r.orders[k].platinum :
       k \in {j \in 1..Len(r.orders) :
                /\ r.orders[j].order_type = side
                /\ r.orders[j].user_platform = PLATFORM
                /\ r.orders[j].user_status \in {"ingame", "InGame", "online", "ONLINE"}
                /\ r.orders[j].visible}}

\* The points of `item` and `side` that a step adds to the price history.
AddedPoints(item, side) ==
    {k \in (Len(MarketData) + 1)..Len(MarketData') :
        MarketData'[k].item_url_name = item /\ MarketData'[k].order_type = side}

\* Caller `c` gets the upstream's answer in this step.
FetchMadeBy(c) ==
    /\ pc[c] = IF c = FetchId THEN "f_call" ELSE "eval"
    /\ pc'[c] # pc[c]

C18_AddIsIdempotent ==
    [][\A h \in HandlerIds :
          (pc[h] = "add" /\ pc'[h] # "add")
          => LET key == arg[h][1]
                 n == Len(watched_items)
             IN IF \E k \in 1..n : watched_items[k].key = key
                THEN /\ watched_items' = watched_items
                     /\ search_status_text' = "already on watchlist"
                ELSE /\ Len(watched_items') = n + 1
                     /\ SubSeq(watched_items', 1, n) = watched_items
                     /\ watched_items'[n + 1] =
                           [key |-> key, status |-> "Not Checked",
                            last_checked |-> "None", friendly_name |-> arg[h][2]]
                     /\ search_status_text' = "Added to watchlist"
      ]_vars

\* Witness of C18: an add found its key on the watchlist, under another display
\* name and with the status and time of an earlier check, and left the entry so.
C18_Witness ==
    \E h \in HandlerIds :
        /\ pc[h] = "h_display"
        /\ Len(arg[h]) = 2
        /\ search_status_text = "already on watchlist"
        /\ \E k \in 1..Len(watched_items) :
              /\ watched_items[k].key = arg[h][1]
              /\ watched_items[k].friendly_name # arg[h][2]
              /\ watched_items[k].status = "Good Buy!"
              /\ watched_items[k].last_checked # "None"

\* C19: a removal of a key that is not on the watchlist leaves watched_items as
\* it is and goes on to the display and the save as any removal does; a removal
\* of a key that is on it deletes that entry and no other.
C19_RemoveAbsentIsNoOp ==
    [][\A h \in HandlerIds :
          (pc[h] = "del" /\ pc'[h] # "del")
          => LET key == arg[h][1]
                 n == Len(watched_items)
                 at == {k \in 1..n : watched_items[k].key = key}
             IN /\ pc'[h] = "h_display"
                /\ IF at = {}
                   THEN watched_items' = watched_items
                   ELSE \E k \in at :
                           watched_items' = SubSeq(watched_items, 1, k - 1)
                                               \o SubSeq(watched_items, k + 1, n)
      ]_vars

\* Witness of C19: two clicks on one tile's delete icon; the second removal
\* found the key gone and left the other entry on the watchlist.
C19_Witness ==
    \E h1, h2 \in HandlerIds :
        /\ h1 # h2
        /\ pc[h1] = "h_display"
        /\ pc[h2] = "h_display"
        /\ Len(arg[h1]) = 1
        /\ arg[h2] = arg[h1]
        /\ watched_items # <<>>
        /\ \A k \in 1..Len(watched_items) : watched_items[k].key # arg[h1][1]

\* C20: a request for an item whose upstream fetch or parsing fails is answered
\* 502, and an answer of 200 with an orders list is given only when the
\* upstream call succeeded.
C20_UpstreamFailureIs502 ==
    (request.name # 0 /\ http_response.status # 0)
    => /\ response[ServerId].kind # "ok" => http_response.status = 502
       /\ http_response.status = 200 => response[ServerId].kind = "ok"

\* The request served in this step is a POST of a JSON object.
PostOfObject == "method" \in DOMAIN request' /\ request'.method = "POST"
                   /\ request'.body.kind = "object"

\* The request served in this step is a fetch of an item that the upstream
\* answered with a relevant order of `side`.
FetchWithOrderOf(side) ==
    /\ "name" \in DOMAIN request'
    /\ request'.name # 0
    /\ response'[ServerId].kind = "ok"
    /\ RelevantPrices(response'[ServerId], side) # {}

\* C21: a request whose store write fails is answered 500 and leaves the
\* persisted state as it was: a POST /watchlist of an object that is not the
\* stored watchlist afterwards, and a GET /fetch_item that had a price of a
\* side and added no point of that side.
C21_StoreFailureIsReported ==
    [][/\ (PostOfObject /\ UserSettings' # Row(request'.body.data))
          => http_response'.status = 500 /\ UserSettings' = UserSettings
       /\ \A side \in {"sell", "buy"} :
            (FetchWithOrderOf(side) /\ AddedPoints(request'.name, side) = {})
            => http_response'.status = 500 /\ MarketData' = MarketData
      ]_vars

\* C22: invalid input is rejected before any side effect: a GET /fetch_item
\* without a name is answered 400 with no upstream call and no price point
\* written, and a POST /watchlist whose body is not a JSON object, bytes that
\* are not JSON included, is answered 400 with the stored watchlist unchanged.
C22_InvalidInputIs400 ==
    [][/\ ("name" \in DOMAIN request' /\ request'.name = 0)
          => /\ http_response'.status = 400
             /\ response' = response
             /\ MarketData' = MarketData
       /\ ("method" \in DOMAIN request' /\ request'.method = "POST"
             /\ request'.body.kind # "object")
          => /\ http_response'.status = 400
             /\ UserSettings' = UserSettings
      ]_vars

\* The program is started in this step: no thread is at work before or after
\* it, and no request is served in it.
ProgramStarts ==
    /\ \A t \in Threads : pc[t] = "none"
    /\ pc' = pc
    /\ UNCHANGED <<request, http_response, db_answer, UserSettings>>
    /\ vars' # vars

\* The request served in this step is a GET /watchlist.
GetOfWatchlist == "method" \in DOMAIN request' /\ request'.method = "GET"

Normalized(key) == \A k \in 1..Len(Str(key)) : Str(key)[k] \notin {UpperA, Space}

\* The keys of the entries of a watchlist.
KeysOf(w) == {w[k].key : k \in 1..Len(w)}

\* C24: every item key in the watchlist (in memory, in the file, in the row of
\* UserSettings) and in the price history is normalized, the key that the
\* desktop's fetch passes on included, and the normalization of a string of up
\* to MaxTyped characters is normalized and a fixed point of the normalization.
C24_KeysAreNormalized ==
    /\ \A key \in KeysOf(watched_items) \cup KeysOf(WATCHLIST_FILE.data)
                     \cup KeysOf(UserSettings.watchlist) : Normalized(key)
    /\ \A k \in 1..Len(MarketData) : Normalized(MarketData[k].item_url_name)
    /\ arg[FetchId] # <<>> => Normalized(arg[FetchId][1])
    /\ add_watchlist_button.data # <<>> => Normalized(add_watchlist_button.data[1])
    /\ \A n \in Strings \ {0} :
          /\ Normalized(format_item_name_for_api(n))
          /\ format_item_name_for_api(n) \in {0, format_item_name_for_api(format_item_name_for_api(n))}

\* C25: no step of a handler of a user event (the fetch click, the check
\* click, the checkbox, add, remove, a change of the filter or of the sort
\* column, up to the handler's return) gets an answer of the upstream market;
\* every answer is got by the fetch thread or by a check cycle (of the manual
\* thread or of the automatic loop) at its call.
C25_HandlersMakeNoUpstreamCall ==
    [][/\ UserEvent => UNCHANGED response
       /\ \A c \in Checkers \cup {FetchId} :
             (response'[c] # response[c] /\ response'[c] # NoResponse)
             => FetchMadeBy(c)]_vars

\* The checkbox started the loop, the filter was changed, and the fetch
\* thread that a click started has the upstream's answer.
C25_Witness ==
    /\ pc[FetchId] = "f_ok"
    /\ response[FetchId].kind = "ok"
    /\ live_order_filter = "buy"
    /\ \E t \in OneLoop : pc[t] = "sleeping"

\* The fetch thread after a call that got no orders (main.py:175-178: the
\* error message is kept, the batch stays empty).
FailedFetch ==
    /\ pc[FetchId] \in {"f_failed", "f_assign", "f_show_acq", "f_show", "f_status"}
    /\ Len(arg[FetchId]) = 2

\* C26: a single-item fetch whose market call fails goes on to its end without
\* an exception; none of its steps changes the price history or the watchlist
\* (in memory, in the file); at its end the status is the fetch error, the
\* order list and the table's rows are empty, the controls are enabled; and
\* every failed fetch comes to that end.
C26_FailedFetchIsSurfaced ==
    /\ [][/\ (pc[FetchId] = "f_call" /\ pc'[FetchId] # "f_call"
              /\ response'[FetchId].kind # "ok")
             => /\ pc'[FetchId] = "f_failed"
                /\ UNCHANGED <<MarketData, watched_items, WATCHLIST_FILE, add_watchlist_button>>
          /\ FailedFetch
             => /\ UNCHANGED <<MarketData, watched_items, WATCHLIST_FILE, UserSettings>>
                /\ pc'[FetchId] # "crashed"
          /\ (FailedFetch /\ pc'[FetchId] = "none")
             => /\ search_status_text' = "Error fetching data"
                /\ current_orders_data' = <<>>
                /\ live_data_table'.rows = <<>>
                /\ ~controls_disabled'
                /\ ~add_watchlist_button'.disabled]_vars
    /\ (FailedFetch ~> pc[FetchId] = "none")

\* A fetch that showed orders was followed by one that failed: the status is
\* the error, the list is empty, the price history has the first fetch's points.
C26_Witness ==
    /\ pc[FetchId] = "none"
    /\ search_status_text = "Error fetching data"
    /\ current_orders_data = <<>>
    /\ ~controls_disabled
    /\ add_watchlist_button.data # <<>>
    /\ Len(MarketData) > Len(InitialMarketData)

\* The prices of the points of `db` of an item, platform and side that are
\* `days` old or younger at `now`, as a bag.
WindowOf(db, item, platform, side, days, now) ==
    LET inside == SelectSeq(db, LAMBDA p : /\ p.item_url_name = item
                                           /\ p.platform = platform
                                           /\ p.order_type = side
                                           /\ now - p.timestamp <= days)
    IN SortAsc([k \in 1..Len(inside) |-> inside[k].price])

\* C27: a call of get_historical_prices_for_item with days = 7 returns, in
\* some order, the prices of exactly the persisted points of the item, the
\* platform and the side that are at most 7 days old: the point of the 7th
\* day before is among them, no older point, no point of another item,
\* platform or side.
C27_WindowedReturnsTheWindow ==
    historical_prices # NoRead
    => SortAsc(historical_prices.prices)
         = WindowOf(MarketData, historical_prices.item_url_name,
                    historical_prices.platform, historical_prices.order_type,
                    HISTORY_DAYS, clock)

\* A loop thread that goes on to a check cycle unless the flag is set again:
\* it runs, Event.wait has not returned True to it, and the flag is clear.
CanStartCycle(t) ==
    /\ is_alive(t)
    /\ pc[t] # "woken"
    /\ ~stop_auto_check_flag

\* C28: whatever was toggled and whenever, at most one thread of
\* run_automatic_checks runs that can still start a check cycle.
C28_AtMostOneLoopCanStartCycle ==
    Cardinality({t \in AutoIds : CanStartCycle(t)}) <= 1

\* Where a thread is about to enter `with watchlist_lock:` and `with data_lock:`.
ListRequests == {"snap_acq", "mark_acq", "write_acq", "add_acq", "del_acq", "save_acq",
                 "display1", "display2", "h_display"}
DataRequests == {"f_ok", "f_failed", "f_show_acq", "t_acq"}

\* The steps inside `with data_lock:`.
DataLockedSteps == {"f_assign", "f_show", "t_show"}

\* C29: a thread about to enter the `with` of a lock does not hold that lock;
\* no thread holds both locks; the holder of a lock is inside the `with` block
\* and the step that leaves the block, by its end or by an exception, frees the
\* lock; and a thread that waits for a lock gets it.
C29_LocksCannotDeadlock ==
    /\ [](\A t \in Threads :
            /\ pc[t] \in ListRequests => watchlist_lock # t
            /\ pc[t] \in DataRequests => data_lock # t
            /\ ~(watchlist_lock = t /\ data_lock = t)
            /\ watchlist_lock = t => pc[t] \in LockedSteps
            /\ data_lock = t => pc[t] \in DataLockedSteps)
    /\ [][\A t \in Threads :
            /\ (watchlist_lock = t /\ pc'[t] # pc[t]) => watchlist_lock' = 0
            /\ (data_lock = t /\ pc'[t] # pc[t]) => data_lock' = 0]_vars
    /\ \A t \in ListUsers \cup TableUsers :
          (pc[t] \in ListRequests \cup DataRequests)
             ~> (pc[t] \notin ListRequests \cup DataRequests)

\* The manual cycle waits at a `with watchlist_lock:` while the handler of an
\* add or a remove is inside its own.
C29_Witness ==
    \E t \in ManualIds, h \in OneHandler :
        /\ pc[t] \in ListRequests
        /\ watchlist_lock = h
        /\ data_lock = 0
        /\ live_order_filter = "sell"

\* C30: the step by which a manual cycle ends leaves the controls enabled and
\* the status text "Watchlist is empty." or "Watchlist check complete.": no
\* manual cycle ends and leaves the controls disabled.
C30_ManualCycleEndsWithControlsEnabled ==
    [][\A t \in ManualIds :
         (is_alive(t) /\ ~is_alive(t)')
            => /\ ~controls_disabled'
               /\ watchlist_status_text' \in {"Watchlist is empty.",
                                              "Watchlist check complete."}]_vars

\* C31: in every state where no check cycle is running, no watched item has
\* the status "Checking...": a cycle that marked an item has given it a final
\* status, or the item is gone, when the cycle is over.
C31_NoCheckingOutsideCycle ==
    NoCycleRunning
       => \A k \in 1..Len(watched_items) : watched_items[k].status # "Checking..."

\* C32: a step of a check cycle leaves the keys of the watchlist and their
\* order as they were, leaves every display name as it was, leaves every entry
\* whose key is not in the cycle's snapshot (an entry added after the snapshot
\* among them) as it was, and leaves the displayed order list and the live table
\* as they were: it changes at most status and last_checked of snapshot keys.
C32_CycleWritesOnlyStatusOfSnapshotKeys ==
    [][\A t \in Checkers :
         (InCycle(t) /\ pc'[t] # pc[t])
            => /\ Keys(watched_items') = Keys(watched_items)
               /\ \A j \in 1..Len(watched_items) :
                     /\ watched_items'[j].friendly_name = watched_items[j].friendly_name
                     /\ watched_items[j].key \notin Range(items_to_check[t])
                           => watched_items'[j] = watched_items[j]
               /\ current_orders_data' = current_orders_data
               /\ live_data_table' = live_data_table]_vars

\* Witness of C32: a cycle has just written the final status of a snapshot item
\* that is still on the watchlist, an entry added after the snapshot is there
\* as it was added, and an order list is displayed.
C32_Witness ==
    \E t \in Checkers :
        /\ pc[t] = "display2"
        /\ Has(watched_items, CurrentItem(t))
        /\ Entry(watched_items, CurrentItem(t)).status \in FinalStatuses
        /\ current_orders_data # <<>>
        /\ \E j \in 1..Len(watched_items) :
              /\ watched_items[j].key \notin Range(items_to_check[t])
              /\ watched_items[j].status = "Not Checked"

\* C33: the events of one item of a cycle come in this order. The mark (status
\* "Checking..." and a new last_checked, if the item is still there) is followed
\* by the refresh of the display, which shows the watchlist as marked; only then
\* comes the upstream call, and the call and the evaluation run with
\* watchlist_lock not held by the cycle; the answer of the upstream is taken at
\* no other step; the final status and last_checked are written after the
\* evaluation and followed by a refresh of the display; the pacing delay comes
\* after that refresh, and the position moves to the next item only by the end
\* of the delay. (An evaluation that raises ends the thread at the call.)
C33_ItemEventsInOrder ==
    /\ [](\A t \in Checkers :
            pc[t] \in {"display1", "eval", "hist", "write_acq", "display2", "sleep"}
               => watchlist_lock # t)
    /\ [][\A t \in Checkers :
            LET item == CurrentItem(t) IN
            /\ (pc[t] = "mark" /\ pc'[t] # "mark")
                  => /\ pc'[t] = "display1"
                     /\ Has(watched_items, item)
                           => /\ Entry(watched_items', item).status = "Checking..."
                              /\ Entry(watched_items', item).last_checked = "%H:%M:%S"
            /\ (pc[t] = "display1" /\ pc'[t] # "display1")
                  => /\ pc'[t] = "eval"
                     /\ watchlist_view' = SortedByName(watched_items')
            /\ (pc'[t] = "eval" /\ pc[t] # "eval") => pc[t] = "display1"
            /\ (response'[t] # response[t] /\ response'[t] # NoResponse)
                  => pc[t] = "eval"
            /\ (pc[t] = "eval" /\ pc'[t] # "eval")
                  => pc'[t] \in {"hist", "write_acq", "crashed"}
            /\ (pc[t] = "hist" /\ pc'[t] # "hist") => pc'[t] = "write_acq"
            /\ (pc'[t] = "write_acq" /\ pc[t] # "write_acq") => pc[t] \in {"eval", "hist"}
            /\ (pc'[t] = "write" /\ pc[t] # "write") => pc[t] = "write_acq"
            /\ (pc[t] = "write" /\ pc'[t] # "write")
                  => /\ pc'[t] = "display2"
                     /\ status[t] \in FinalStatuses
                     /\ Has(watched_items, item)
                           => /\ Entry(watched_items', item).status = status[t]
                              /\ Entry(watched_items', item).last_checked = "%Y-%m-%d %H:%M"
            /\ (pc[t] = "display2" /\ pc'[t] # "display2")
                  => /\ pc'[t] = "sleep"
                     /\ watchlist_view' = SortedByName(watched_items')
            /\ (pc'[t] = "sleep" /\ pc[t] # "sleep") => pc[t] = "display2"
            /\ (pc[t] = "sleep" /\ pc'[t] # "sleep")
                  => pc'[t] = "loop" /\ idx'[t] = idx[t] + 1
            /\ (pc[t] # "sleep" /\ pc[t] \in ItemSteps /\ pc'[t] \in ItemSteps)
                  => idx'[t] = idx[t]
            /\ (pc'[t] = "mark_acq" /\ pc[t] # "mark_acq") => pc[t] = "loop"
            /\ (pc'[t] = "mark" /\ pc[t] # "mark") => pc[t] = "mark_acq"
         ]_vars

\* Witness of C33: a cycle is about to start its second item, the first has its
\* final status and the display shows it.
C33_Witness ==
    \E t \in Checkers :
        /\ pc[t] = "mark_acq"
        /\ idx[t] = 2
        /\ Has(watched_items, items_to_check[t][1])
        /\ Entry(watched_items, items_to_check[t][1]).status \in FinalStatuses
        /\ watchlist_view = SortedByName(watched_items)

\* C34: when the handler of an add or of a remove completes and no other
\* handler is at work, the watchlist file holds the keys of the watchlist in
\* memory.
C34_SavedKeysAreMemoryKeys ==
    [][\A h \in HandlerIds :
         (/\ pc[h] = "save_close"
          /\ pc'[h] = "none"
          /\ \A g \in HandlerIds \ {h} : ~is_alive(g))
            => /\ WATCHLIST_FILE'.valid
               /\ Keys(WATCHLIST_FILE'.data) = Keys(watched_items')]_vars

\* C35: a save is atomic beside another save. When a handler closes its file
\* and no other handler is at work, the file is a JSON document and holds the
\* watchlist as one of the overlapping saves dumped it under the lock: what this
\* handler dumped, or what the file held from the other; it is never empty and
\* never a mix of two dumps.
C35_OverlappingSavesLeaveOneCopy ==
    [][\A h \in HandlerIds :
         (/\ pc[h] = "save_close"
          /\ pc'[h] = "none"
          /\ \A g \in HandlerIds \ {h} : ~is_alive(g))
            => /\ WATCHLIST_FILE'.exists
               /\ WATCHLIST_FILE'.valid
               /\ WATCHLIST_FILE'.data \in {buffer[h], WATCHLIST_FILE.data}]_vars

====
